---- MODULE Spec2Model ----
(***************************************************************************)
(* KanaBoxV2: the billing calculation core (date-only utilities, the       *)
(* subscription status classifier, the payment allocator) and the payment  *)
(* store operations that use it.                                           *)
(*                                                                         *)
(* A date-only string is a sequence of one-character strings, so that      *)
(* parsing and formatting are computed character by character.  A          *)
(* JavaScript Date built at local midnight is modelled by its day number   *)
(* (days since 1970-01-01 in local calendar fields); the day arithmetic    *)
(* follows the ECMAScript definitions (DayFromYear, YearFromTime,          *)
(* MonthFromTime, DateFromTime, MakeDay).  The utilities read and write    *)
(* local fields only and hand local fields to Date.UTC, so the time of day *)
(* and the zone offset do not enter.                                       *)
(*                                                                         *)
(* A function that throws returns a record whose err field names the       *)
(* error; callers pass the error on as the code's exceptions propagate.    *)
(***************************************************************************)
EXTENDS Integers, Sequences, FiniteSets, TLC

VARIABLES
    dateString,   \* date library: the string argument of the call
    days,         \* date library: the numeric argument (days or months)
    call,         \* date library: the function applied last ("none" at start)
    ret,          \* date library: what the call returned or threw
    now,          \* the clock: the current local day, as a Date
    endDate,      \* status engine: the end date given to computeStatus
    today,        \* status engine: the day computeStatus read from the clock
    statusInfo,   \* status engine: what computeStatus returned
    payment,      \* allocator: the payment given to allocatePaymentToMonths
    allocated,    \* allocator: what allocatePaymentToMonths returned or threw
    payments,     \* the "payments" collection: a set of documents
    nextId,       \* the _id the next inserted document gets
    recommendInput,  \* the amount and currency given to calculateRecommendedMonths
    recommended,     \* whether calculateRecommendedMonths returned, and what
    totalsInput,     \* the payments and month buckets given to computeMonthlyTotals
    totals,          \* whether computeMonthlyTotals returned, and its Map
    request,         \* payment forms: the form data posted and not yet handled
    response,        \* payment forms: the HTTP status of the last response
    customers,       \* the "customers" collection: a set of documents
    listing,         \* member list: the loader's position, its `today`, its rows
    views,           \* per page, the customers it was loaded for and what it shows
    nameLog,         \* the names the successful calls gave to customers, in order
    tasks            \* the requests being served: per request, its action and position

dateVars == <<dateString, days, call, ret>>
statusVars == <<now, endDate, today, statusInfo>>
allocVars == <<payment, allocated>>
storeVars == <<payments, nextId>>
recommendVars == <<recommendInput, recommended>>
totalsVars == <<totalsInput, totals>>
formVars == <<request, response>>
listVars == <<customers, listing>>
pageVars == <<views>>
custVars == <<nameLog>>
taskVars == <<tasks>>
vars == <<dateVars, statusVars, allocVars, storeVars, recommendVars, totalsVars, formVars, listVars, pageVars, custVars, taskVars>>

----------------------------------------------------------------------------
(* Strings *)

Digits == <<"0", "1", "2", "3", "4", "5", "6", "7", "8", "9">>

DigitChars == {Digits[i] : i \in 1..10}

\* /\d/ : one ASCII digit
IsDigit(c) == c \in DigitChars

DigitVal(c) == CHOOSE n \in 0..9 : Digits[n + 1] = c

\* String(n) for an integer n
RECURSIVE NatToStr(_)
NatToStr(n) ==
    IF n < 10 THEN <<Digits[n + 1]>>
    ELSE NatToStr(n \div 10) \o <<Digits[(n % 10) + 1]>>

NumberToString(n) == IF n < 0 THEN <<"-">> \o NatToStr(-n) ELSE NatToStr(n)

\* s.padStart(len, fill) with a one-character fill
RECURSIVE padStart(_, _, _)
padStart(s, len, fill) ==
    IF Len(s) >= len THEN s ELSE padStart(<<fill>> \o s, len, fill)

\* parseInt(s, 10) of a string of digits
RECURSIVE parseInt(_)
parseInt(s) ==
    IF Len(s) = 0 THEN 0
    ELSE 10 * parseInt(SubSeq(s, 1, Len(s) - 1)) + DigitVal(s[Len(s)])

\* s.substring(0, n)
substring0(s, n) == SubSeq(s, 1, IF Len(s) < n THEN Len(s) ELSE n)

----------------------------------------------------------------------------
(* The JavaScript Date built-ins the utilities call, on day numbers *)

DayFromYear(y) ==
    365 * (y - 1970) + ((y - 1969) \div 4) - ((y - 1901) \div 100)
        + ((y - 1601) \div 400)

InLeapYear(y) ==
    IF y % 4 # 0 THEN 0 ELSE IF y % 100 # 0 THEN 1 ELSE IF y % 400 # 0 THEN 0 ELSE 1

\* the year y with DayFromYear(y) <= t < DayFromYear(y + 1); 400 years have
\* 146097 days, which places y within one of the guess
YearFromTime(t) ==
    LET guess == 1970 + ((t * 400) \div 146097)
    IN  CHOOSE y \in (guess - 1)..(guess + 1) :
            DayFromYear(y) <= t /\ t < DayFromYear(y + 1)

\* first day-within-year of month m (0-based; m = 12 is the year's end)
MonthStart(m, leap) ==
    <<0, 31, 59, 90, 120, 151, 181, 212, 243, 273, 304, 334, 365>>[m + 1]
        + (IF m >= 2 THEN leap ELSE 0)

MonthFromTime(t) ==
    LET y == YearFromTime(t)
        leap == InLeapYear(y)
        d == t - DayFromYear(y)
    IN  CHOOSE m \in 0..11 : MonthStart(m, leap) <= d /\ d < MonthStart(m + 1, leap)

DateFromTime(t) ==
    LET y == YearFromTime(t)
        leap == InLeapYear(y)
        d == t - DayFromYear(y)
        m == CHOOSE m \in 0..11 : MonthStart(m, leap) <= d /\ d < MonthStart(m + 1, leap)
    IN  d - MonthStart(m, leap) + 1

\* MakeDay(year, month, date): month and date may lie outside their ranges
MakeDay(year, month, date) ==
    LET ym == year + (month \div 12)
        mn == month % 12
    IN  DayFromYear(ym) + MonthStart(mn, InLeapYear(ym)) + date - 1

\* new Date(year, month, day, 0, 0, 0, 0): a year 0..99 means 1900 + year
NewDate(year, month, day) ==
    MakeDay(IF 0 <= year /\ year <= 99 THEN 1900 + year ELSE year, month, day)

\* Date.UTC(year, month, day) / msPerDay: the same rule for the years 0..99
DateUTC(year, month, day) ==
    MakeDay(IF 0 <= year /\ year <= 99 THEN 1900 + year ELSE year, month, day)

getFullYear(date) == YearFromTime(date)
getMonth(date) == MonthFromTime(date)
getDate(date) == DateFromTime(date)

\* date.setDate(n)
setDate(date, n) == MakeDay(getFullYear(date), getMonth(date), n)

\* date.setMonth(m)
setMonth(date, m) == MakeDay(getFullYear(date), m, getDate(date))

----------------------------------------------------------------------------
(* Date utilities (date-only strings) *)

NoError == "none"
InvalidFormat == "Invalid date format"
InvalidDate == "Invalid date"

\* /^(\d{4})-(\d{2})-(\d{2})$/
MatchesDatePattern(s) ==
    /\ Len(s) = 10
    /\ \A i \in {1, 2, 3, 4, 6, 7, 9, 10} : IsDigit(s[i])
    /\ s[5] = "-"
    /\ s[8] = "-"

\* parseDateOnly without the check that the Date kept the fields it was given
parseDateOnlyUnchecked(s) ==
    IF ~MatchesDatePattern(s) THEN [err |-> InvalidFormat, date |-> 0]
    ELSE [err |-> NoError,
          date |-> NewDate(parseInt(SubSeq(s, 1, 4)), parseInt(SubSeq(s, 6, 7)) - 1,
                           parseInt(SubSeq(s, 9, 10)))]

parseDateOnly(s) ==
    IF ~MatchesDatePattern(s) THEN [err |-> InvalidFormat, date |-> 0]
    ELSE LET year == parseInt(SubSeq(s, 1, 4))
             month == parseInt(SubSeq(s, 6, 7))
             day == parseInt(SubSeq(s, 9, 10))
             date == NewDate(year, month - 1, day)
         IN  IF \/ getFullYear(date) # year
                \/ getMonth(date) # month - 1
                \/ getDate(date) # day
             THEN [err |-> InvalidDate, date |-> 0]
             ELSE [err |-> NoError, date |-> date]

formatDateOnly(date) ==
    LET year == getFullYear(date)
        month == padStart(NumberToString(getMonth(date) + 1), 2, "0")
        day == padStart(NumberToString(getDate(date)), 2, "0")
    IN  NumberToString(year) \o <<"-">> \o month \o <<"-">> \o day

addDaysDateOnly(s, n) ==
    LET p == parseDateOnly(s)
    IN  IF p.err # NoError THEN [err |-> p.err, s |-> <<>>]
        ELSE [err |-> NoError,
              s |-> formatDateOnly(setDate(p.date, getDate(p.date) + n))]

diffDaysDateOnly(dateA, dateB) ==
    LET a == parseDateOnly(dateA)
        b == parseDateOnly(dateB)
    IN  IF a.err # NoError THEN [err |-> a.err, n |-> 0]
        ELSE IF b.err # NoError THEN [err |-> b.err, n |-> 0]
        ELSE LET utcA == DateUTC(getFullYear(a.date), getMonth(a.date), getDate(a.date))
                 utcB == DateUTC(getFullYear(b.date), getMonth(b.date), getDate(b.date))
             IN  [err |-> NoError, n |-> utcA - utcB]

\* addMonthsDateOnly without the clamp to the target month's last day
addMonthsDateOnlyNoClamp(s, months) ==
    LET p == parseDateOnly(s)
    IN  IF p.err # NoError THEN [err |-> p.err, s |-> <<>>]
        ELSE [err |-> NoError,
              s |-> formatDateOnly(setMonth(p.date, getMonth(p.date) + months))]

addMonthsDateOnly(s, months) ==
    LET p == parseDateOnly(s)
    IN  IF p.err # NoError THEN [err |-> p.err, s |-> <<>>]
        ELSE LET originalDay == getDate(p.date)
                 targetMonth == getMonth(p.date) + months
                 moved == setMonth(p.date, targetMonth)
                 clamped == IF getDate(moved) # originalDay
                            THEN setDate(moved, 0)
                            ELSE moved
             IN  [err |-> NoError, s |-> formatDateOnly(clamped)]

getMonthBucket(s) == substring0(s, 7)

isValidDateOnly(s) == parseDateOnly(s).err = NoError

\* compareDateOnly with its arguments exchanged
compareDateOnlySwapped(a, b) == diffDaysDateOnly(b, a)

compareDateOnly(a, b) == diffDaysDateOnly(a, b)

\* formatDateOnly(new Date())
getTodayDateOnly == formatDateOnly(now)

----------------------------------------------------------------------------
(* Status engine *)

DUE_SOON_DAYS == 3
GRACE_DAYS == 7

\* null; a null end date is the empty string, which `!endDate` treats alike
Null == "null"
NullDate == <<>>

\* computeStatus with `daysToEnd >= DUE_SOON_DAYS` for the active test
ClassifyDaysActiveAtDueSoon(daysToEnd) ==
    LET daysPastEnd == -daysToEnd
    IN  IF daysToEnd >= DUE_SOON_DAYS
        THEN [err |-> NoError, status |-> "active",
              daysToEnd |-> daysToEnd, daysPastEnd |-> Null]
        ELSE IF daysToEnd >= 0 /\ daysToEnd <= DUE_SOON_DAYS
        THEN [err |-> NoError, status |-> "due",
              daysToEnd |-> daysToEnd, daysPastEnd |-> Null]
        ELSE IF daysPastEnd > 0 /\ daysPastEnd <= GRACE_DAYS
        THEN [err |-> NoError, status |-> "grace",
              daysToEnd |-> Null, daysPastEnd |-> daysPastEnd]
        ELSE [err |-> NoError, status |-> "expired",
              daysToEnd |-> Null, daysPastEnd |-> daysPastEnd]

\* computeStatus with `daysPastEnd < GRACE_DAYS` for the grace test
ClassifyDaysShortGrace(daysToEnd) ==
    LET daysPastEnd == -daysToEnd
    IN  IF daysToEnd > DUE_SOON_DAYS
        THEN [err |-> NoError, status |-> "active",
              daysToEnd |-> daysToEnd, daysPastEnd |-> Null]
        ELSE IF daysToEnd >= 0 /\ daysToEnd <= DUE_SOON_DAYS
        THEN [err |-> NoError, status |-> "due",
              daysToEnd |-> daysToEnd, daysPastEnd |-> Null]
        ELSE IF daysPastEnd > 0 /\ daysPastEnd < GRACE_DAYS
        THEN [err |-> NoError, status |-> "grace",
              daysToEnd |-> Null, daysPastEnd |-> daysPastEnd]
        ELSE [err |-> NoError, status |-> "expired",
              daysToEnd |-> Null, daysPastEnd |-> daysPastEnd]

\* computeStatus once daysToEnd is known: the four returns for a non-null end date
ClassifyDays(daysToEnd) ==
    LET daysPastEnd == -daysToEnd
    IN  IF daysToEnd > DUE_SOON_DAYS
        THEN [err |-> NoError, status |-> "active",
              daysToEnd |-> daysToEnd, daysPastEnd |-> Null]
        ELSE IF daysToEnd >= 0 /\ daysToEnd <= DUE_SOON_DAYS
        THEN [err |-> NoError, status |-> "due",
              daysToEnd |-> daysToEnd, daysPastEnd |-> Null]
        ELSE IF daysPastEnd > 0 /\ daysPastEnd <= GRACE_DAYS
        THEN [err |-> NoError, status |-> "grace",
              daysToEnd |-> Null, daysPastEnd |-> daysPastEnd]
        ELSE [err |-> NoError, status |-> "expired",
              daysToEnd |-> Null, daysPastEnd |-> daysPastEnd]

\* computeStatus after `const today = getTodayDateOnly()`
computeStatusOn(e, day) ==
    IF Len(e) = 0
    THEN [err |-> NoError, status |-> "none", daysToEnd |-> Null, daysPastEnd |-> Null]
    ELSE LET d == diffDaysDateOnly(e, day)
         IN  IF d.err # NoError
             THEN [err |-> d.err, status |-> "throw",
                   daysToEnd |-> Null, daysPastEnd |-> Null]
             ELSE ClassifyDays(d.n)

computeStatus(e) == computeStatusOn(e, getTodayDateOnly)

\* no status computed
NoStatus == [err |-> NoError, status |-> "uncomputed",
             daysToEnd |-> Null, daysPastEnd |-> Null]

BASE_PRICE_VND == 50000
BASE_PRICE_USD == 2

\* calculateRecommendedMonths without Math.max(1, ...)
calculateRecommendedMonthsNoClamp(amount, currency) ==
    IF amount <= 0 THEN 1
    ELSE LET basePrice == IF currency = "VND" THEN BASE_PRICE_VND ELSE BASE_PRICE_USD
         IN  amount \div (basePrice * 1000)

\* the amount is counted in thousandths of a unit; Math.floor(amount / basePrice)
\* of a positive amount is the integer quotient
calculateRecommendedMonths(amount, currency) ==
    IF amount <= 0 THEN 1
    ELSE LET basePrice == IF currency = "VND" THEN BASE_PRICE_VND ELSE BASE_PRICE_USD
             floor == amount \div (basePrice * 1000)
         IN  IF floor > 1 THEN floor ELSE 1

----------------------------------------------------------------------------
(* Revenue allocator.  Amounts are counted in the currency's minimal unit:   *)
(* whole VND, whole cents for USD.                                           *)

\* Math.floor((amount / months) * 100) is computed in binary floating point:
\* when amount / months is a whole number of cents the product can fall just
\* below it (0.29 * 100 = 28.999999999999996) and the floor loses one cent.
\* Otherwise, and for the integer VND division, the floor is exact.
FloorLosses(p) ==
    IF p.currency = "USD" /\ p.months >= 1 /\ p.amount % p.months = 0
    THEN {0, 1} ELSE {0}

\* monthAmount with no extra unit for the first months
monthAmountNoExtra(baseAmount, monthsWithExtra, i) == baseAmount

\* monthAmount with `i <= monthsWithExtra`
monthAmountOneMore(baseAmount, monthsWithExtra, i) ==
    baseAmount + (IF i <= monthsWithExtra THEN 1 ELSE 0)

\* the amount of month i (0-based): remainderPerMonth is one minimal unit
monthAmount(baseAmount, monthsWithExtra, i) ==
    baseAmount + (IF i < monthsWithExtra THEN 1 ELSE 0)

allocatePaymentToMonths(p, floorLoss) ==
    IF p.months <= 0 THEN [err |-> NoError, allocations |-> <<>>]
    ELSE LET baseAmount == (p.amount \div p.months) - floorLoss
             totalBase == baseAmount * p.months
             remainder == p.amount - totalBase
             monthsWithExtra == remainder
             periodStart(i) == addMonthsDateOnly(p.paidDate, i)
         IN  IF periodStart(0).err # NoError
             THEN [err |-> periodStart(0).err, allocations |-> <<>>]
             ELSE [err |-> NoError,
                   allocations |->
                       [k \in 1..p.months |->
                           [monthBucket |-> getMonthBucket(periodStart(k - 1).s),
                            amount |-> monthAmount(baseAmount, monthsWithExtra, k - 1),
                            currency |-> p.currency]]]

----------------------------------------------------------------------------
(* Monthly aggregator.  A Map is the sequence of its entries in insertion    *)
(* order; amounts are counted in minimal units (whole VND, whole cents).     *)

USD_TO_VND_RATE == 25800

\* map.has(k)
MapHas(m, k) == \E i \in 1..Len(m) : m[i].key = k

\* map.get(k) of a key the map has
MapGet(m, k) == m[CHOOSE i \in 1..Len(m) : m[i].key = k].value

\* map.set(k, v): an existing key keeps its place
MapSet(m, k, v) ==
    IF MapHas(m, k)
    THEN [i \in 1..Len(m) |-> IF m[i].key = k THEN [key |-> k, value |-> v] ELSE m[i]]
    ELSE Append(m, [key |-> k, value |-> v])

\* for (const bucket of monthBuckets) totals.set(bucket, {VND: 0, USD: 0, convertedVnd: 0})
RECURSIVE initTotals(_, _)
initTotals(m, monthBuckets) ==
    IF Len(monthBuckets) = 0 THEN m
    ELSE initTotals(MapSet(m, monthBuckets[1], [VND |-> 0, USD |-> 0, convertedVnd |-> 0]),
                    Tail(monthBuckets))

\* the loop body with `current.USD = payment.amount`: the running total is lost
addPaymentOverwrites(m, p) ==
    LET bucketKey == getMonthBucket(p.paidDate)
    IN  IF ~MapHas(m, bucketKey) THEN m
        ELSE LET current == MapGet(m, bucketKey)
             IN  MapSet(m, bucketKey,
                        IF p.currency = "VND"
                        THEN [current EXCEPT !.VND = @ + p.amount]
                        ELSE [current EXCEPT !.USD = p.amount])

\* the loop body without the currency test: every amount is added to VND
addPaymentIgnoresCurrency(m, p) ==
    LET bucketKey == getMonthBucket(p.paidDate)
    IN  IF ~MapHas(m, bucketKey) THEN m
        ELSE LET current == MapGet(m, bucketKey)
             IN  MapSet(m, bucketKey, [current EXCEPT !.VND = @ + p.amount])

\* the body of `for (const payment of payments)`: Math.round of a whole VND
\* amount is the amount, and Math.round((USD + amount) * 100) / 100 of two
\* amounts in whole cents is their sum in whole cents
addPayment(m, p) ==
    LET bucketKey == getMonthBucket(p.paidDate)
    IN  IF ~MapHas(m, bucketKey) THEN m
        ELSE LET current == MapGet(m, bucketKey)
             IN  MapSet(m, bucketKey,
                        IF p.currency = "VND"
                        THEN [current EXCEPT !.VND = @ + p.amount]
                        ELSE [current EXCEPT !.USD = @ + p.amount])

RECURSIVE addPayments(_, _)
addPayments(m, list) ==
    IF Len(list) = 0 THEN m
    ELSE addPayments(addPayment(m, list[1]), Tail(list))

\* Math.round(VND + USD * USD_TO_VND_RATE), USD in cents: half rounds up
convertedVnd(data) == (data.VND * 100 + data.USD * USD_TO_VND_RATE + 50) \div 100

computeMonthlyTotals(list, monthBuckets) ==
    LET summed == addPayments(initTotals(<<>>, monthBuckets), list)
    IN  [i \in 1..Len(summed) |->
            [key |-> summed[i].key,
             value |-> [summed[i].value EXCEPT !.convertedVnd = convertedVnd(summed[i].value)]]]

----------------------------------------------------------------------------
(* Payment store.  An amount is a decimal number, counted here in            *)
(* thousandths of a unit: 1.005 is 1005, one cent is 10, one VND is 1000.    *)

\* Math.round(x * 100) is computed in binary floating point: an input amount
\* that lies exactly between two cents (1.005) can fall just below the tie
\* and round down.  Math.round(x) for VND rounds an exact tie up.
RoundLosses(input) ==
    IF input.currency # "VND" /\ input.amount % 10 = 5 THEN {0, 1} ELSE {0}

\* sanitizedAmount without the rounding: the amount as submitted
sanitizedAmountUnrounded(input, roundLoss) == input.amount

\* VND: Math.round(amount); any other currency: Math.round(amount * 100) / 100
sanitizedAmount(input, roundLoss) ==
    IF input.currency = "VND"
    THEN ((input.amount + 500) \div 1000) * 1000
    ELSE (((input.amount + 5) \div 10) - roundLoss) * 10

\* ObjectId.isValid(id): the ids of the model are the positive ones
ObjectIdIsValid(id) == id >= 1

\* createPayment with the end date one month short
createPaymentOneMonthShort(docs, id, input, roundLoss) ==
    LET end == addMonthsDateOnly(input.paidDate, input.months - 1)
    IN  IF end.err # NoError THEN docs
        ELSE docs \cup {[_id |-> id,
                         customerId |-> input.customerId,
                         paidDate |-> input.paidDate,
                         currency |-> input.currency,
                         amount |-> sanitizedAmount(input, roundLoss),
                         months |-> input.months,
                         endDate |-> end.s,
                         updatedAt |-> FALSE]}

\* what createPayment leaves in the collection
createPayment(docs, id, input, roundLoss) ==
    LET end == addMonthsDateOnly(input.paidDate, input.months)
    IN  IF end.err # NoError THEN docs
        ELSE docs \cup {[_id |-> id,
                         customerId |-> input.customerId,
                         paidDate |-> input.paidDate,
                         currency |-> input.currency,
                         amount |-> sanitizedAmount(input, roundLoss),
                         months |-> input.months,
                         endDate |-> end.s,
                         updatedAt |-> FALSE]}

\* updatePayment with endDate left out of the $set
updatePaymentKeepsEndDate(docs, id, input, roundLoss) ==
    LET end == addMonthsDateOnly(input.paidDate, input.months)
    IN  IF ~ObjectIdIsValid(id) \/ end.err # NoError THEN docs
        ELSE {IF d._id = id
              THEN [d EXCEPT !.paidDate = input.paidDate,
                             !.currency = input.currency,
                             !.amount = sanitizedAmount(input, roundLoss),
                             !.months = input.months,
                             !.updatedAt = TRUE]
              ELSE d : d \in docs}

\* what updatePayment leaves in the collection
updatePayment(docs, id, input, roundLoss) ==
    LET end == addMonthsDateOnly(input.paidDate, input.months)
    IN  IF ~ObjectIdIsValid(id) \/ end.err # NoError THEN docs
        ELSE {IF d._id = id
              THEN [d EXCEPT !.paidDate = input.paidDate,
                             !.currency = input.currency,
                             !.amount = sanitizedAmount(input, roundLoss),
                             !.months = input.months,
                             !.endDate = end.s,
                             !.updatedAt = TRUE]
              ELSE d : d \in docs}

\* what deletePayment leaves in the collection
deletePayment(docs, id) ==
    IF ~ObjectIdIsValid(id) THEN docs ELSE {d \in docs : d._id # id}

----------------------------------------------------------------------------
(* Payment forms: the actions of the routes that create and edit payments.   *)
(* A form is the record of its fields as posted; amountStr, monthsStr and    *)
(* paidDate are sequences of characters, already trimmed.                    *)

\* the longest prefix of s made of digits
RECURSIVE LeadingDigits(_)
LeadingDigits(s) ==
    IF Len(s) = 0 \/ ~IsDigit(s[1]) THEN <<>>
    ELSE <<s[1]>> \o LeadingDigits(Tail(s))

\* parseFloat(s) of a string without exponent: an optional sign, digits, an
\* optional fraction; what follows is ignored; NaN when there is no digit.
\* The value is in thousandths.
parseFloat(s) ==
    LET signed == Len(s) > 0 /\ s[1] \in {"-", "+"}
        body == IF signed THEN Tail(s) ELSE s
        whole == LeadingDigits(body)
        rest == SubSeq(body, Len(whole) + 1, Len(body))
        frac == IF Len(rest) > 0 /\ rest[1] = "." THEN LeadingDigits(Tail(rest)) ELSE <<>>
        magnitude == parseInt(whole) * 1000
                        + parseInt(SubSeq(frac \o <<"0", "0", "0">>, 1, 3))
    IN  IF Len(whole) = 0 /\ Len(frac) = 0 THEN [nan |-> TRUE, value |-> 0]
        ELSE [nan |-> FALSE,
              value |-> IF signed /\ s[1] = "-" THEN -magnitude ELSE magnitude]

\* parseInt(s, 10) of any string: an optional sign and the leading digits
parseIntField(s) ==
    LET signed == Len(s) > 0 /\ s[1] \in {"-", "+"}
        whole == LeadingDigits(IF signed THEN Tail(s) ELSE s)
    IN  IF Len(whole) = 0 THEN [nan |-> TRUE, value |-> 0]
        ELSE [nan |-> FALSE,
              value |-> IF signed /\ s[1] = "-" THEN -parseInt(whole) ELSE parseInt(whole)]

\* the customers collection holds the customer with this _id
KnownCustomers == {1}

\* getCustomerById(id)
getCustomerById(id) == IF ObjectIdIsValid(id) /\ id \in KnownCustomers THEN id ELSE 0

\* getPaymentById(id) finds a document
getPaymentById(docs, id) == ObjectIdIsValid(id) /\ \E d \in docs : d._id = id

\* String(formData.get("currency") || "VND") as Currency: a cast, no test
formCurrency(form) == IF form.currency = "" THEN "VND" ELSE form.currency

\* the input the action hands to createPayment or updatePayment
formInput(form) ==
    [customerId |-> form.id,
     paidDate |-> form.paidDate,
     currency |-> formCurrency(form),
     amount |-> parseFloat(form.amountStr).value,
     months |-> parseIntField(form.monthsStr).value]

\* the fields the admin actions find in error
adminFormErrors(form) ==
    LET amount == parseFloat(form.amountStr)
        months == parseIntField(form.monthsStr)
    IN  (IF Len(form.amountStr) = 0 \/ amount.nan \/ amount.value <= 0
            \/ (formCurrency(form) = "VND" /\ amount.value % 1000 # 0)
         THEN {"amount"} ELSE {})
        \cup (IF Len(form.monthsStr) = 0 \/ months.nan \/ months.value < 1
              THEN {"months"} ELSE {})
        \cup (IF Len(form.paidDate) = 0 \/ ~MatchesDatePattern(form.paidDate)
              THEN {"paidDate"} ELSE {})

\* the fields the public action finds in error: no whole-number test for VND
publicFormErrors(form) ==
    LET amount == parseFloat(form.amountStr)
        months == parseIntField(form.monthsStr)
    IN  (IF getCustomerById(form.id) = 0 THEN {"customerId"} ELSE {})
        \cup (IF Len(form.amountStr) = 0 \/ amount.nan \/ amount.value <= 0
              THEN {"amount"} ELSE {})
        \cup (IF Len(form.monthsStr) = 0 \/ months.nan \/ months.value < 1
              THEN {"months"} ELSE {})
        \cup (IF Len(form.paidDate) = 0 \/ ~MatchesDatePattern(form.paidDate)
              THEN {"paidDate"} ELSE {})

\* createPayment throws what addMonthsDateOnly throws, before it inserts
createPaymentThrows(input) ==
    addMonthsDateOnly(input.paidDate, input.months).err # NoError

\* the action of the admin new-payment route: the collection it leaves and
\* the status of its response
adminNewPaymentAction(docs, id, form, roundLoss) ==
    IF getCustomerById(form.id) = 0 \/ adminFormErrors(form) # {}
    THEN [docs |-> docs, status |-> 400]
    ELSE IF createPaymentThrows(formInput(form))
    THEN [docs |-> docs, status |-> 500]
    ELSE [docs |-> createPayment(docs, id, formInput(form), roundLoss), status |-> 302]

\* the action of the public new-payment route
publicNewPaymentAction(docs, id, form, roundLoss) ==
    IF publicFormErrors(form) # {}
    THEN [docs |-> docs, status |-> 400]
    ELSE IF createPaymentThrows(formInput(form))
    THEN [docs |-> docs, status |-> 500]
    ELSE [docs |-> createPayment(docs, id, formInput(form), roundLoss), status |-> 302]

\* the action of the admin edit-payment route; form.id is params.paymentId
editPaymentAction(docs, form, roundLoss) ==
    IF ~ObjectIdIsValid(form.id) THEN [docs |-> docs, status |-> 400]
    ELSE IF adminFormErrors(form) # {} THEN [docs |-> docs, status |-> 400]
    ELSE IF ~getPaymentById(docs, form.id) THEN [docs |-> docs, status |-> 404]
    ELSE IF createPaymentThrows(formInput(form))
    THEN [docs |-> docs, status |-> 500]
    ELSE [docs |-> updatePayment(docs, form.id, formInput(form), roundLoss),
          status |-> 302]

----------------------------------------------------------------------------
(* Customers.  A name is a sequence of characters.  The collection has the   *)
(* unique index ux_customers_displayName that init-db.mjs creates.           *)

\* String.prototype.trim, the white space of the model being the blank
RECURSIVE trimStart(_)
trimStart(s) == IF Len(s) > 0 /\ s[1] = " " THEN trimStart(Tail(s)) ELSE s

RECURSIVE trimEnd(_)
trimEnd(s) ==
    IF Len(s) > 0 /\ s[Len(s)] = " " THEN trimEnd(SubSeq(s, 1, Len(s) - 1)) ELSE s

trim(s) == trimEnd(trimStart(s))

\* the code of the error a write throws when it would leave two documents
\* with one key of a unique index
DuplicateKey == "E11000"

\* a collection without the unique index: no write is refused
NoUniqueIndex(custs, id, name) == FALSE

\* the unique index on displayName refuses to give document id this name
ViolatesUniqueIndex(custs, id, name) ==
    \E c \in custs : c._id # id /\ c.displayName = name

\* createCustomer: the collection it leaves, and the error insertOne throws
createCustomer(custs, id, input) ==
    LET displayName == trim(input.displayName)
    IN  IF ViolatesUniqueIndex(custs, id, displayName)
        THEN [err |-> DuplicateKey, docs |-> custs]
        ELSE [err |-> NoError,
              docs |-> custs \cup {[_id |-> id, displayName |-> displayName,
                                    nameHistory |-> <<>>]}]

\* deleteCustomer
deleteCustomer(custs, id) ==
    IF ~ObjectIdIsValid(id) THEN custs ELSE {c \in custs : c._id # id}

\* updateCustomer from findOneAndUpdate on, with the $push given always
findOneAndUpdateAlwaysPushes(custs, id, currentName, input) ==
    LET nextDisplayName == trim(input.displayName)
    IN  IF \A c \in custs : c._id # id
        THEN [err |-> NoError, found |-> FALSE, docs |-> custs]
        ELSE IF ViolatesUniqueIndex(custs, id, nextDisplayName)
        THEN [err |-> DuplicateKey, found |-> FALSE, docs |-> custs]
        ELSE [err |-> NoError, found |-> TRUE,
              docs |-> {IF c._id = id
                        THEN [c EXCEPT !.displayName = nextDisplayName,
                                       !.nameHistory = Append(@, currentName)]
                        ELSE c : c \in custs}]

\* updateCustomer from findOneAndUpdate on: currentName is the displayName
\* that findOne read; $set displayName, and $push nameHistory when the name
\* read differs from the next one
findOneAndUpdate(custs, id, currentName, input) ==
    LET nextDisplayName == trim(input.displayName)
    IN  IF \A c \in custs : c._id # id
        THEN [err |-> NoError, found |-> FALSE, docs |-> custs]
        ELSE IF ViolatesUniqueIndex(custs, id, nextDisplayName)
        THEN [err |-> DuplicateKey, found |-> FALSE, docs |-> custs]
        ELSE [err |-> NoError, found |-> TRUE,
              docs |-> {IF c._id = id
                        THEN [c EXCEPT !.displayName = nextDisplayName,
                                       !.nameHistory =
                                           IF currentName # nextDisplayName
                                           THEN Append(@, currentName) ELSE @]
                        ELSE c : c \in custs}]

\* updateCustomer run without another call in between
updateCustomer(custs, id, input) ==
    LET current == {c \in custs : c._id = id}
    IN  IF ~ObjectIdIsValid(id) \/ current = {}
        THEN [err |-> NoError, found |-> FALSE, docs |-> custs]
        ELSE findOneAndUpdate(custs, id, (CHOOSE c \in current : TRUE).displayName, input)

\* the name the routes find in error
customerNameErrors(displayName) ==
    IF Len(displayName) = 0 \/ Len(displayName) > 60 THEN {"displayName"} ELSE {}

\* the action of the add-customer route: the collection it leaves, the status
\* of its response and the error the response names
newCustomerAction(custs, id, form) ==
    LET displayName == trim(form.name)
        r == createCustomer(custs, id, [displayName |-> displayName])
    IN  IF customerNameErrors(displayName) # {}
        THEN [custs |-> custs, status |-> 400, error |-> "invalid"]
        ELSE IF r.err = DuplicateKey
        THEN [custs |-> custs, status |-> 400, error |-> "duplicate"]
        ELSE [custs |-> r.docs, status |-> 302, error |-> "none"]

\* the action of the admin edit-customer route; form.id is params.customerId.
\* The Response(404) thrown inside the try block is caught by its catch.
editCustomerAction(custs, form) ==
    LET displayNameTrimmed == trim(form.name)
        r == updateCustomer(custs, form.id, [displayName |-> displayNameTrimmed])
    IN  IF ~ObjectIdIsValid(form.id)
        THEN [custs |-> custs, status |-> 400, error |-> "invalid"]
        ELSE IF customerNameErrors(displayNameTrimmed) # {}
        THEN [custs |-> custs, status |-> 400, error |-> "invalid"]
        ELSE IF r.err = DuplicateKey
        THEN [custs |-> custs, status |-> 400, error |-> "duplicate"]
        ELSE IF ~r.found THEN [custs |-> custs, status |-> 500, error |-> "form"]
        ELSE [custs |-> r.docs, status |-> 302, error |-> "none"]

\* the action of the admin add-customer route, which creates the customer
\* (with _id id) and its first payment (with _id id + 1); deleteFails says
\* that the deleteOne of the rollback throws
adminNewCustomerAction(custs, docs, id, form, roundLoss, deleteFails) ==
    LET displayName == trim(form.name)
        r == createCustomer(custs, id, [displayName |-> displayName])
        input == [formInput(form) EXCEPT !.customerId = id]
    IN  IF customerNameErrors(displayName) \cup adminFormErrors(form) # {}
        THEN [custs |-> custs, docs |-> docs, status |-> 400, error |-> "invalid"]
        ELSE IF r.err = DuplicateKey
        THEN [custs |-> custs, docs |-> docs, status |-> 400, error |-> "duplicate"]
        ELSE IF createPaymentThrows(input)
        THEN [custs |-> IF deleteFails THEN r.docs ELSE deleteCustomer(r.docs, id),
              docs |-> docs, status |-> 500, error |-> "form"]
        ELSE [custs |-> r.docs,
              docs |-> createPayment(docs, id + 1, input, roundLoss),
              status |-> 302, error |-> "none"]

----------------------------------------------------------------------------
(* Requests served at the same time.  Each await of a database call is a     *)
(* point where another request can run.                                      *)

\* collection.findOne({ _id }) of getCustomerById finds a document
customerFound(custs, id) == ObjectIdIsValid(id) /\ \E c \in custs : c._id = id

\* deleteMany({ customerId }) of deleteCustomerWithPayments
deleteManyPayments(docs, customerId) == {d \in docs : d.customerId # customerId}

NoTask == [kind |-> "none", pc |-> "idle", customerId |-> 0, name |-> <<>>,
           current |-> <<>>]

----------------------------------------------------------------------------
(* Public member list: the loader of the public home route *)

\* the UTF-16 code unit of a character of a date string
CodeUnit(c) == IF c = "-" THEN 45 ELSE 48 + DigitVal(c)

\* a > b on strings: the first differing code unit decides, a proper prefix
\* is smaller
RECURSIVE StringGreater(_, _)
StringGreater(a, b) ==
    IF Len(a) = 0 THEN FALSE
    ELSE IF Len(b) = 0 THEN TRUE
    ELSE IF a[1] # b[1] THEN CodeUnit(a[1]) > CodeUnit(b[1])
    ELSE StringGreater(Tail(a), Tail(b))

\* find({customerId}).sort({paidDate: -1}).limit(1): the documents that can
\* come first (documents with equal paidDate come in any order)
LatestPayments(docs, customerId) ==
    {d \in docs :
        /\ d.customerId = customerId
        /\ \A e \in docs : e.customerId = customerId => ~StringGreater(e.paidDate, d.paidDate)}

\* latestPayment?.endDate || null, latest being a set with at most one document
endDateOrNull(latest) == IF latest = {} THEN NullDate ELSE (CHOOSE d \in latest : TRUE).endDate

\* latestPayment?._id, 0 standing for null
latestPaymentId(latest) == IF latest = {} THEN 0 ELSE (CHOOSE d \in latest : TRUE)._id

\* what .limit(1).next() or [0] can yield: null (the empty set) or one of the
\* documents that can come first
LatestChoices(docs, customerId) ==
    IF LatestPayments(docs, customerId) = {} THEN {{}}
    ELSE {{d} : d \in LatestPayments(docs, customerId)}

\* the map callback of the loader with computeStatus given the captured day
customerRowOnCapturedDay(customer, latest, capturedToday) ==
    LET e == endDateOrNull(latest)
    IN  [customer |-> customer._id,
         latestPayment |-> latestPaymentId(latest),
         endDate |-> e,
         status |-> computeStatusOn(e, capturedToday),
         isHidden |-> \/ customer.isPublicHidden
                      \/ (/\ customer.renewalCancelled
                          /\ Len(e) # 0
                          /\ StringGreater(capturedToday, e))]

\* the map callback of the loader, after getLatestPaymentForCustomer resolved:
\* computeStatus reads the clock, the hidden test uses the captured `today`
customerRow(customer, latest, capturedToday) ==
    LET e == endDateOrNull(latest)
    IN  [customer |-> customer._id,
         latestPayment |-> latestPaymentId(latest),
         endDate |-> e,
         status |-> computeStatus(e),
         isHidden |-> \/ customer.isPublicHidden
                      \/ (/\ customer.renewalCancelled
                          /\ Len(e) # 0
                          /\ StringGreater(capturedToday, e))]

----------------------------------------------------------------------------
(* The monthly totals of the admin dashboard *)

monthWindowCount == 12

\* `${getMonthBucket(today)}-01`
revenueWindowStart(day) == getMonthBucket(day) \o <<"-", "0", "1">>

\* the end of the window without the step back of one day
revenueWindowEndNotSteppedBack(startWindow) ==
    addMonthsDateOnly(startWindow, monthWindowCount).s

\* addDaysDateOnly(addMonthsDateOnly(startWindow, monthWindowCount), -1)
revenueWindowEnd(startWindow) ==
    addDaysDateOnly(addMonthsDateOnly(startWindow, monthWindowCount).s, -1).s

\* Array.from({ length: monthWindowCount }, (_, i) =>
\*     getMonthBucket(addMonthsDateOnly(startWindow, i)))
dashboardMonthBuckets(startWindow) ==
    [i \in 1..monthWindowCount |->
        getMonthBucket(addMonthsDateOnly(startWindow, i - 1).s)]

\* find({ paidDate: { $gte: startDate, $lte: endDate } }): strings compared
\* as strings; lastDate is the code's endDate
listPaymentsForRevenueWindow(docs, startDate, lastDate) ==
    {d \in docs : ~StringGreater(startDate, d.paidDate) /\ ~StringGreater(d.paidDate, lastDate)}

\* .toArray(): the documents found, here in the order of their _id
RECURSIVE toArray(_)
toArray(docs) ==
    IF docs = {} THEN <<>>
    ELSE LET first == CHOOSE d \in docs : \A e \in docs : d._id <= e._id
         IN  <<first>> \o toArray(docs \ {first})

\* a stored amount (in thousandths) as computeMonthlyTotals counts it: in
\* whole VND, in whole cents for any other currency
storedAmount(d) == IF d.currency = "VND" THEN d.amount \div 1000 ELSE d.amount \div 10

\* the documents as the payments computeMonthlyTotals is given
asListed(list) ==
    [i \in 1..Len(list) |-> [paidDate |-> list[i].paidDate, currency |-> list[i].currency,
                             amount |-> storedAmount(list[i])]]

\* monthBuckets.map((month) => monthlyMap.get(month) || zeros)
monthlyTotals(monthlyMap, monthBuckets) ==
    [i \in 1..Len(monthBuckets) |->
        LET row == IF MapHas(monthlyMap, monthBuckets[i])
                   THEN MapGet(monthlyMap, monthBuckets[i])
                   ELSE [VND |-> 0, USD |-> 0, convertedVnd |-> 0]
        IN  [month |-> monthBuckets[i], vnd |-> row.VND, usd |-> row.USD,
             convertedVnd |-> row.convertedVnd]]

----------------------------------------------------------------------------
(* The pages that show a customer's status.  A loader returns the HTTP code   *)
(* of its response and, under 200, the latest payment and the status shown.  *)

NoPage(code) == [code |-> code, latestPayment |-> 0, status |-> NoStatus]

\* the map callback of the dashboard loader
dashboardRow(customer, latest) ==
    [code |-> 200,
     latestPayment |-> latestPaymentId(latest),
     status |-> computeStatus(endDateOrNull(latest))]

\* what the public list shows of a row the filter keeps
publicListRow(customer, latest, capturedToday) ==
    [code |-> 200,
     latestPayment |-> customerRow(customer, latest, capturedToday).latestPayment,
     status |-> customerRow(customer, latest, capturedToday).status]

\* loader of the public customer page; latest is what
\* getLatestPaymentForCustomer resolves to
publicDetailLoader(custs, customerId, latest) ==
    LET found == {c \in custs : c._id = customerId}
    IN  IF ~ObjectIdIsValid(customerId) THEN NoPage(400)
        ELSE IF found = {} \/ (CHOOSE c \in found : TRUE).isPublicHidden THEN NoPage(404)
        ELSE [code |-> 200,
              latestPayment |-> latestPaymentId(latest),
              status |-> computeStatus(endDateOrNull(latest))]

\* loader of the admin customer page; latest is payments[0] || null of
\* listPaymentsForCustomer
adminDetailLoader(custs, customerId, latest) ==
    LET found == {c \in custs : c._id = customerId}
    IN  IF ~ObjectIdIsValid(customerId) THEN NoPage(400)
        ELSE IF found = {} THEN NoPage(404)
        ELSE [code |-> 200,
              latestPayment |-> latestPaymentId(latest),
              status |-> computeStatus(endDateOrNull(latest))]

----------------------------------------------------------------------------
(* The date library applied to bounded inputs *)

MaxDays == 13

Str(n, width) == padStart(NatToStr(n), width, "0")

InputYears == {50, 100, 999, 1000, 1900, 2000, 2024, 2026, 9999}
InputMonths == 0..13
InputDays == {0, 1, 15, 28, 29, 30, 31, 32}

\* every 4-2-2 digit string over the input years, months and days
PatternStrings ==
    {Str(y, 4) \o <<"-">> \o Str(m, 2) \o <<"-">> \o Str(d, 2) :
        y \in InputYears, m \in InputMonths, d \in InputDays}

\* strings that do not have the 4-2-2 digit shape
MalformedStrings ==
    { <<>>,
      <<"2", "0", "2", "6", "-", "2", "-", "0", "5">>,
      <<"2", "0", "2", "6", "/", "0", "2", "/", "0", "5">>,
      <<"2", "0", "2", "6", "-", "0", "x", "-", "0", "5">>,
      <<"2", "0", "2", "6", "-", "0", "2", "-", "0", "5", "5">>,
      <<"2", "0", "2", "6", "0", "2", "0", "5">>,
      <<"9", "9", "9", "-", "1", "2", "-", "3", "1">>,
      <<"1", "0", "0", "0", "0", "-", "0", "1", "-", "0", "1">>,
      <<" ", "2", "0", "2", "6", "-", "0", "2", "-", "0", "5">> }

InputStrings == PatternStrings \cup MalformedStrings

\* second arguments of compareDateOnly: the parser's smallest and largest
\* days, a leap day, days that are also first arguments, and one it rejects
CompareDates ==
    {Str(100, 4) \o <<"-", "0", "1", "-", "0", "1">>,
     Str(2024, 4) \o <<"-", "0", "2", "-", "2", "9">>,
     Str(2026, 4) \o <<"-", "0", "1", "-", "1", "5">>,
     Str(2026, 4) \o <<"-", "0", "1", "-", "1", "6">>,
     Str(2026, 4) \o <<"-", "1", "2", "-", "3", "1">>,
     Str(9999, 4) \o <<"-", "1", "2", "-", "3", "1">>,
     Str(2026, 4) \o <<"-", "0", "2", "-", "3", "0">>}

NoReturn == [err |-> NoError, s |-> <<>>, n |-> 0]

MaxTicks == 14

\* where the clock starts: 2024-02-20 (before a leap day) or 2025-12-22
ClockStarts == {MakeDay(2024, 1, 20), MakeDay(2025, 11, 22)}

DateString(y, m, d) == Str(y, 4) \o <<"-">> \o Str(m, 2) \o <<"-">> \o Str(d, 2)

\* the end dates given to computeStatus: null, the days around the clock, and
\* two strings the parser rejects
StatusEndDates ==
    {DateString(2024, 2, d) : d \in 10..29}
    \cup {DateString(2024, 3, d) : d \in 1..10}
    \cup {DateString(2025, 12, d) : d \in 12..31}
    \cup {DateString(2026, 1, d) : d \in 1..10}
    \cup {NullDate, DateString(2026, 2, 30),
          <<"9", "9", "9", "-", "1", "2", "-", "1", "5">>}

DateIdle ==
    /\ dateString = <<>>
    /\ days = 0
    /\ call = "none"
    /\ ret = NoReturn

StatusIdle ==
    /\ now = 0
    /\ endDate = NullDate
    /\ today = <<>>
    /\ statusInfo = NoStatus

NoPayment == [paidDate |-> <<>>, currency |-> "VND", amount |-> 0, months |-> 0]

NotAllocated == [err |-> NoError, done |-> FALSE, allocations |-> <<>>]

AllocIdle ==
    /\ payment = NoPayment
    /\ allocated = NotAllocated

StoreIdle ==
    /\ payments = {}
    /\ nextId = 1

NotRecommended == [done |-> FALSE, months |-> 0]

NoTotals == [done |-> FALSE, rows |-> <<>>]

TotalsIdle ==
    /\ totalsInput = [list |-> <<>>, monthBuckets |-> <<>>]
    /\ totals = NoTotals

NoRequest == [route |-> "none", id |-> 0, currency |-> "", amountStr |-> <<>>,
              monthsStr |-> <<>>, paidDate |-> <<>>]

FormIdle ==
    /\ request = NoRequest
    /\ response = 0

\* the rows are kept as a function from the customer's _id to its row
NoListing == [pc |-> "idle", today |-> <<>>, pending |-> {}, rows |-> <<>>]

ListIdle ==
    /\ customers = {}
    /\ listing = NoListing

\* the four pages that show a customer's status
Pages == {"publicList", "publicDetail", "dashboard", "adminDetail"}

NoViews == [p \in Pages |-> [loaded |-> {}, rows |-> <<>>]]

ViewIdle == views = NoViews

CustIdle == nameLog = <<>>

TaskIdle == tasks = <<>>

RecommendIdle ==
    /\ recommendInput = [amount |-> 0, currency |-> "VND"]
    /\ recommended = NotRecommended

DateInit ==
    /\ dateString \in InputStrings
    /\ days \in (-MaxDays)..MaxDays
    /\ call = "none"
    /\ ret = NoReturn
    /\ StatusIdle
    /\ AllocIdle
    /\ StoreIdle
    /\ RecommendIdle
    /\ TotalsIdle
    /\ FormIdle
    /\ ListIdle
    /\ ViewIdle
    /\ CustIdle
    /\ TaskIdle

CallParse ==
    /\ call = "none"
    /\ call' = "parseDateOnly"
    /\ ret' = LET p == parseDateOnly(dateString)
              IN  [err |-> p.err, s |-> <<>>, n |-> p.date]
    /\ UNCHANGED <<dateString, days, statusVars, allocVars, storeVars, recommendVars, totalsVars, formVars, listVars, pageVars, custVars, taskVars>>

CallIsValid ==
    /\ call = "none"
    /\ call' = "isValidDateOnly"
    /\ ret' = [err |-> NoError, s |-> <<>>,
               n |-> IF isValidDateOnly(dateString) THEN 1 ELSE 0]
    /\ UNCHANGED <<dateString, days, statusVars, allocVars, storeVars, recommendVars, totalsVars, formVars, listVars, pageVars, custVars, taskVars>>

\* formatDateOnly(parseDateOnly(dateString))
CallFormatParse ==
    /\ call = "none"
    /\ call' = "formatDateOnly"
    /\ ret' = LET p == parseDateOnly(dateString)
              IN  IF p.err # NoError THEN [err |-> p.err, s |-> <<>>, n |-> 0]
                  ELSE [err |-> NoError, s |-> formatDateOnly(p.date), n |-> 0]
    /\ UNCHANGED <<dateString, days, statusVars, allocVars, storeVars, recommendVars, totalsVars, formVars, listVars, pageVars, custVars, taskVars>>

CallAddDays ==
    /\ call = "none"
    /\ call' = "addDaysDateOnly"
    /\ ret' = LET r == addDaysDateOnly(dateString, days)
              IN  [err |-> r.err, s |-> r.s, n |-> 0]
    /\ UNCHANGED <<dateString, days, statusVars, allocVars, storeVars, recommendVars, totalsVars, formVars, listVars, pageVars, custVars, taskVars>>

\* diffDaysDateOnly(addDaysDateOnly(dateString, days), dateString)
CallDiffDays ==
    /\ call = "none"
    /\ call' = "diffDaysDateOnly"
    /\ ret' = LET r == addDaysDateOnly(dateString, days)
              IN  IF r.err # NoError THEN [err |-> r.err, s |-> <<>>, n |-> 0]
                  ELSE LET d == diffDaysDateOnly(r.s, dateString)
                       IN  [err |-> d.err, s |-> r.s, n |-> d.n]
    /\ UNCHANGED <<dateString, days, statusVars, allocVars, storeVars, recommendVars, totalsVars, formVars, listVars, pageVars, custVars, taskVars>>

CallAddMonths ==
    /\ call = "none"
    /\ call' = "addMonthsDateOnly"
    /\ ret' = LET r == addMonthsDateOnly(dateString, days)
              IN  [err |-> r.err, s |-> r.s, n |-> 0]
    /\ UNCHANGED <<dateString, days, statusVars, allocVars, storeVars, recommendVars, totalsVars, formVars, listVars, pageVars, custVars, taskVars>>

\* compareDateOnly(dateString, b); ret.s keeps the second argument b
CallCompare ==
    /\ call = "none"
    /\ call' = "compareDateOnly"
    /\ \E b \in CompareDates :
          ret' = LET c == compareDateOnly(dateString, b)
                 IN  [err |-> c.err, s |-> b, n |-> c.n]
    /\ UNCHANGED <<dateString, days, statusVars, allocVars, storeVars, recommendVars, totalsVars, formVars, listVars, pageVars, custVars, taskVars>>

DateNext ==
    \/ CallParse
    \/ CallIsValid
    \/ CallFormatParse
    \/ CallAddDays
    \/ CallDiffDays
    \/ CallAddMonths
    \/ CallCompare

SpecDate == DateInit /\ [][DateNext]_vars

----------------------------------------------------------------------------
(* The status engine under an advancing clock *)

StatusInit ==
    /\ now \in ClockStarts
    /\ endDate \in StatusEndDates
    /\ today = <<>>
    /\ statusInfo = NoStatus
    /\ DateIdle
    /\ AllocIdle
    /\ StoreIdle
    /\ RecommendIdle
    /\ TotalsIdle
    /\ FormIdle
    /\ ListIdle
    /\ ViewIdle
    /\ CustIdle
    /\ TaskIdle

\* midnight passes
Tick ==
    /\ \E s \in ClockStarts : s <= now /\ now < s + MaxTicks
    /\ now' = now + 1
    /\ UNCHANGED <<endDate, today, statusInfo, dateVars, allocVars, storeVars, recommendVars, totalsVars, formVars, listVars, pageVars, custVars, taskVars>>

ComputeStatus ==
    /\ today' = getTodayDateOnly
    /\ statusInfo' = computeStatus(endDate)
    /\ UNCHANGED <<now, endDate, dateVars, allocVars, storeVars, recommendVars, totalsVars, formVars, listVars, pageVars, custVars, taskVars>>

StatusNext == Tick \/ ComputeStatus

SpecStatus == StatusInit /\ [][StatusNext]_vars

----------------------------------------------------------------------------
(* The allocator applied to bounded payments *)

MaxMonths == 5
MaxAmount == 12

\* paid dates: month ends that clamp, a year end, the parser's smallest and
\* largest years, and one the parser rejects
AllocPaidDates ==
    {DateString(2026, 1, 29), DateString(2026, 1, 30), DateString(2026, 1, 31),
     DateString(2024, 1, 31), DateString(2026, 2, 5), DateString(2025, 10, 31),
     DateString(2025, 12, 31), DateString(999, 11, 15), DateString(100, 1, 31),
     DateString(9999, 11, 30), DateString(2026, 2, 30)}

AllocInit ==
    /\ payment \in [paidDate : AllocPaidDates, currency : {"VND", "USD"},
                     amount : 1..MaxAmount, months : (-1)..MaxMonths]
    /\ allocated = NotAllocated
    /\ DateIdle
    /\ StatusIdle
    /\ StoreIdle
    /\ RecommendIdle
    /\ TotalsIdle
    /\ FormIdle
    /\ ListIdle
    /\ ViewIdle
    /\ CustIdle
    /\ TaskIdle

Allocate ==
    /\ ~allocated.done
    /\ \E floorLoss \in FloorLosses(payment) :
          allocated' = LET r == allocatePaymentToMonths(payment, floorLoss)
                       IN  [err |-> r.err, done |-> TRUE, allocations |-> r.allocations]
    /\ UNCHANGED <<payment, dateVars, statusVars, storeVars, recommendVars, totalsVars, formVars, listVars, pageVars, custVars, taskVars>>

AllocNext == Allocate

SpecAlloc == AllocInit /\ [][AllocNext]_vars

----------------------------------------------------------------------------
(* The payment store under create, update and delete *)

MaxPayments == 2

\* paid dates submitted: a month end that clamps, a year end, and one the
\* parser rejects
StorePaidDates ==
    {DateString(2026, 1, 31), DateString(2025, 12, 31), DateString(2026, 2, 30)}

\* amounts submitted, in thousandths: 1.005
StoreAmounts == {1005}

PaymentInputs ==
    [customerId : {1}, paidDate : StorePaidDates, currency : {"VND", "USD"},
     amount : StoreAmounts, months : {1, 2}]

Init ==
    /\ payments = {}
    /\ nextId = 1
    /\ DateIdle
    /\ StatusIdle
    /\ AllocIdle
    /\ RecommendIdle
    /\ TotalsIdle
    /\ FormIdle
    /\ ListIdle
    /\ ViewIdle
    /\ CustIdle
    /\ TaskIdle

CreatePayment ==
    /\ nextId <= MaxPayments
    /\ \E input \in PaymentInputs : \E roundLoss \in RoundLosses(input) :
          /\ payments' = createPayment(payments, nextId, input, roundLoss)
          /\ nextId' = IF payments' = payments THEN nextId ELSE nextId + 1
    /\ UNCHANGED <<dateVars, statusVars, allocVars, recommendVars, totalsVars, formVars, listVars, pageVars, custVars, taskVars>>

UpdatePayment ==
    /\ \E id \in 0..MaxPayments : \E input \in PaymentInputs :
          \E roundLoss \in RoundLosses(input) :
              payments' = updatePayment(payments, id, input, roundLoss)
    /\ UNCHANGED <<nextId, dateVars, statusVars, allocVars, recommendVars, totalsVars, formVars, listVars, pageVars, custVars, taskVars>>

DeletePayment ==
    /\ \E id \in 0..MaxPayments : payments' = deletePayment(payments, id)
    /\ UNCHANGED <<nextId, dateVars, statusVars, allocVars, recommendVars, totalsVars, formVars, listVars, pageVars, custVars, taskVars>>

Next == CreatePayment \/ UpdatePayment \/ DeletePayment

Spec == Init /\ [][Next]_vars

----------------------------------------------------------------------------
(* calculateRecommendedMonths applied to bounded amounts *)

MaxMultiple == 4

\* amounts in thousandths: around every multiple of either base price up to
\* MaxMultiple, a cent, a unit or a thousandth off it, and negative amounts
RecommendAmounts ==
    {k * base + delta :
        k \in 0..MaxMultiple,
        base \in {BASE_PRICE_USD * 1000, BASE_PRICE_VND * 1000},
        delta \in {-1000, -10, -1, 0, 1, 10, 1000}}

RecommendInit ==
    /\ recommendInput \in [amount : RecommendAmounts, currency : {"VND", "USD"}]
    /\ recommended = NotRecommended
    /\ DateIdle
    /\ StatusIdle
    /\ AllocIdle
    /\ StoreIdle
    /\ TotalsIdle
    /\ FormIdle
    /\ ListIdle
    /\ ViewIdle
    /\ CustIdle
    /\ TaskIdle

Recommend ==
    /\ ~recommended.done
    /\ recommended' =
          [done |-> TRUE,
           months |-> calculateRecommendedMonths(recommendInput.amount,
                                                 recommendInput.currency)]
    /\ UNCHANGED <<recommendInput, dateVars, statusVars, allocVars, storeVars, totalsVars, formVars, listVars, pageVars, custVars, taskVars>>

RecommendNext == Recommend

SpecRecommend == RecommendInit /\ [][RecommendNext]_vars

----------------------------------------------------------------------------
(* computeMonthlyTotals applied to bounded payment lists *)

MaxListed == 3

\* the payments listed: paid on a month's last day, on the next month's first
\* day and in a month outside the buckets; one minimal unit or 205 of them
ListedPayments ==
    [paidDate : {DateString(2026, 1, 31), DateString(2026, 2, 1), DateString(2025, 12, 31)},
     currency : {"VND", "USD"},
     amount : {1, 205}]

PaymentLists == UNION {[1..n -> ListedPayments] : n \in 0..MaxListed}

Bucket(y, m) == Str(y, 4) \o <<"-">> \o Str(m, 2)

\* the bucket lists supplied: none, one month, two months in either order, and
\* a list naming a month twice
BucketLists ==
    {<<>>, <<Bucket(2026, 1)>>, <<Bucket(2026, 2), Bucket(2026, 1)>>,
     <<Bucket(2026, 1), Bucket(2026, 2)>>,
     <<Bucket(2026, 2), Bucket(2026, 1), Bucket(2026, 2)>>}

TotalsInit ==
    /\ totalsInput \in [list : PaymentLists, monthBuckets : BucketLists]
    /\ totals = NoTotals
    /\ DateIdle
    /\ StatusIdle
    /\ AllocIdle
    /\ StoreIdle
    /\ RecommendIdle
    /\ FormIdle
    /\ ListIdle
    /\ ViewIdle
    /\ CustIdle
    /\ TaskIdle

ComputeMonthlyTotals ==
    /\ ~totals.done
    /\ totals' = [done |-> TRUE,
                  rows |-> computeMonthlyTotals(totalsInput.list, totalsInput.monthBuckets)]
    /\ UNCHANGED <<totalsInput, dateVars, statusVars, allocVars, storeVars, recommendVars, formVars, listVars, pageVars, custVars, taskVars>>

TotalsNext == ComputeMonthlyTotals

SpecTotals == TotalsInit /\ [][TotalsNext]_vars

----------------------------------------------------------------------------
(* The payment forms posted to the three routes *)

MaxSubmitted == 1

\* amount fields: empty, not a number, negative, 0.004, 1.005 and 50000
AmountFields ==
    {<<>>, <<"x">>, <<"-", "5">>, <<"0", ".", "0", "0", "4">>,
     <<"1", ".", "0", "0", "5">>, <<"5", "0", "0", "0", "0">>}

\* months fields: not a number, 0 and 1
MonthsFields == {<<"x">>, <<"0">>, <<"1">>}

\* paid dates: a month end, Feb 30 and one digit short of the pattern
FormPaidDates ==
    {DateString(2026, 1, 31), DateString(2026, 2, 30),
     <<"2", "0", "2", "6", "-", "2", "-", "0", "1">>}

Forms ==
    [route : {"admin.new", "public.new", "admin.edit"},
     id : 0..MaxSubmitted,
     currency : {"VND", "USD", "EUR"},
     amountStr : AmountFields,
     monthsStr : MonthsFields,
     paidDate : FormPaidDates]

FormInit ==
    /\ payments = {}
    /\ nextId = 1
    /\ request = NoRequest
    /\ response = 0
    /\ DateIdle
    /\ StatusIdle
    /\ AllocIdle
    /\ RecommendIdle
    /\ TotalsIdle
    /\ ListIdle
    /\ ViewIdle
    /\ CustIdle
    /\ TaskIdle

\* a browser posts a form
Submit ==
    /\ request = NoRequest
    /\ request' \in Forms
    /\ request'.route \in {"admin.new", "public.new"} => nextId <= MaxSubmitted
    /\ UNCHANGED <<response, storeVars, dateVars, statusVars, allocVars,
                   recommendVars, totalsVars, listVars, pageVars, custVars, taskVars>>

AdminNewPayment ==
    /\ request.route = "admin.new"
    /\ \E roundLoss \in RoundLosses(formInput(request)) :
          LET r == adminNewPaymentAction(payments, nextId, request, roundLoss)
          IN  /\ payments' = r.docs
              /\ nextId' = IF r.status = 302 THEN nextId + 1 ELSE nextId
              /\ response' = r.status
    /\ request' = NoRequest
    /\ UNCHANGED <<dateVars, statusVars, allocVars, recommendVars, totalsVars, listVars, pageVars, custVars, taskVars>>

PublicNewPayment ==
    /\ request.route = "public.new"
    /\ \E roundLoss \in RoundLosses(formInput(request)) :
          LET r == publicNewPaymentAction(payments, nextId, request, roundLoss)
          IN  /\ payments' = r.docs
              /\ nextId' = IF r.status = 302 THEN nextId + 1 ELSE nextId
              /\ response' = r.status
    /\ request' = NoRequest
    /\ UNCHANGED <<dateVars, statusVars, allocVars, recommendVars, totalsVars, listVars, pageVars, custVars, taskVars>>

EditPayment ==
    /\ request.route = "admin.edit"
    /\ \E roundLoss \in RoundLosses(formInput(request)) :
          LET r == editPaymentAction(payments, request, roundLoss)
          IN  /\ payments' = r.docs
              /\ response' = r.status
    /\ request' = NoRequest
    /\ UNCHANGED <<nextId, dateVars, statusVars, allocVars, recommendVars, totalsVars, listVars, pageVars, custVars, taskVars>>

FormNext == Submit \/ AdminNewPayment \/ PublicNewPayment \/ EditPayment

SpecForms == FormInit /\ [][FormNext]_vars

----------------------------------------------------------------------------
(* The public member list loaded while the clock runs *)

MaxCustomers == 2
MaxMidnights == 1

\* the clock at the start: 2026-01-10
ListClockStart == MakeDay(2026, 0, 10)

\* paid dates of the stored payments: one month before the clock start and
\* three days earlier
SeedPaidDates == <<DateString(2025, 12, 7), DateString(2025, 12, 10)>>

\* the payments collection when each customer c has paid on the dates paid[c]
SeedPayments(paid) ==
    UNION {UNION {createPayment({}, (c - 1) * Len(SeedPaidDates) + k,
                                [customerId |-> c, paidDate |-> SeedPaidDates[k],
                                 currency |-> "VND", amount |-> 50000000, months |-> 1],
                                0) : k \in paid[c]} : c \in DOMAIN paid}

ListInit ==
    /\ now = ListClockStart
    /\ endDate = NullDate
    /\ today = <<>>
    /\ statusInfo = NoStatus
    /\ \E flags \in [1..MaxCustomers -> [isPublicHidden : BOOLEAN, renewalCancelled : BOOLEAN]] :
          customers = {[_id |-> c, isPublicHidden |-> flags[c].isPublicHidden,
                        renewalCancelled |-> flags[c].renewalCancelled] : c \in 1..MaxCustomers}
    /\ \E paid \in [1..MaxCustomers -> SUBSET (1..Len(SeedPaidDates))] :
          payments = SeedPayments(paid)
    /\ nextId = MaxCustomers * Len(SeedPaidDates) + 1
    /\ listing = NoListing
    /\ DateIdle
    /\ AllocIdle
    /\ RecommendIdle
    /\ TotalsIdle
    /\ FormIdle
    /\ ViewIdle
    /\ CustIdle
    /\ TaskIdle

\* midnight passes while the request is served
ListTick ==
    /\ now < ListClockStart + MaxMidnights
    /\ now' = now + 1
    /\ UNCHANGED <<endDate, today, statusInfo, listVars, dateVars, allocVars,
                   storeVars, recommendVars, totalsVars, formVars, pageVars, custVars, taskVars>>

\* listCustomers resolved; `const today = getTodayDateOnly()`; every map
\* callback has issued its getLatestPaymentForCustomer
ListStart ==
    /\ listing.pc = "idle"
    /\ listing' = [pc |-> "map", today |-> getTodayDateOnly,
                   pending |-> {c._id : c \in customers}, rows |-> <<>>]
    /\ UNCHANGED <<customers, statusVars, dateVars, allocVars, storeVars,
                   recommendVars, totalsVars, formVars, pageVars, custVars, taskVars>>

\* getLatestPaymentForCustomer resolves for one customer and its callback
\* runs to the end
ListCustomer ==
    /\ listing.pc = "map"
    /\ \E c \in customers :
          /\ c._id \in listing.pending
          /\ \E latest \in LatestChoices(payments, c._id) :
                listing' = [listing EXCEPT
                              !.pending = @ \ {c._id},
                              !.rows = [k \in DOMAIN @ \cup {c._id} |->
                                          IF k = c._id
                                          THEN customerRow(c, latest, listing.today)
                                          ELSE @[k]]]
    /\ UNCHANGED <<customers, statusVars, dateVars, allocVars, storeVars,
                   recommendVars, totalsVars, formVars, pageVars, custVars, taskVars>>

\* Promise.all resolved: the hidden rows are filtered out and the response sent
ListRespond ==
    /\ listing.pc = "map"
    /\ listing.pending = {}
    /\ listing' = [listing EXCEPT !.pc = "done",
                                    !.rows = [k \in {j \in DOMAIN @ : ~@[j].isHidden} |-> @[k]]]
    /\ UNCHANGED <<customers, statusVars, dateVars, allocVars, storeVars,
                   recommendVars, totalsVars, formVars, pageVars, custVars, taskVars>>

ListNext == ListTick \/ ListStart \/ ListCustomer \/ ListRespond

SpecList == ListInit /\ [][ListNext]_vars

----------------------------------------------------------------------------
(* The four pages loaded over one payment history *)

MaxViewed == 1

\* the day of the requests: 2026-01-10 or the day after
PageClockStarts == {MakeDay(2026, 0, 10), MakeDay(2026, 0, 11)}

\* the payments a customer can have made: two on the same day, for one and
\* for two months, and an earlier one for three months
PageSeeds == <<[paidDate |-> DateString(2025, 12, 10), months |-> 1],
               [paidDate |-> DateString(2025, 12, 10), months |-> 2],
               [paidDate |-> DateString(2025, 12, 7), months |-> 3]>>

PageHistories == {{}, {1}, {1, 2}, {1, 2, 3}}

PageFlags == {[isPublicHidden |-> FALSE, renewalCancelled |-> FALSE],
              [isPublicHidden |-> TRUE, renewalCancelled |-> FALSE],
              [isPublicHidden |-> FALSE, renewalCancelled |-> TRUE]}

\* the payments collection when each customer c has made the payments paid[c]
PagePayments(paid) ==
    UNION {UNION {createPayment({}, (c - 1) * Len(PageSeeds) + k,
                                [customerId |-> c, paidDate |-> PageSeeds[k].paidDate,
                                 currency |-> "VND", amount |-> 50000000,
                                 months |-> PageSeeds[k].months],
                                0) : k \in paid[c]} : c \in DOMAIN paid}

\* one resolution of getLatestPaymentForCustomer per customer of the list
LatestPicks(custs, docs) ==
    {pick \in [{c._id : c \in custs} -> {0} \cup {d._id : d \in docs}] :
        \A c \in DOMAIN pick :
            pick[c] \in {latestPaymentId(l) : l \in LatestChoices(docs, c)}}

Picked(docs, id) == {d \in docs : d._id = id}

PageInit ==
    /\ now \in PageClockStarts
    /\ endDate = NullDate
    /\ today = <<>>
    /\ statusInfo = NoStatus
    /\ \E flags \in [1..MaxViewed -> PageFlags] :
          customers = {[_id |-> c, isPublicHidden |-> flags[c].isPublicHidden,
                        renewalCancelled |-> flags[c].renewalCancelled] : c \in 1..MaxViewed}
    /\ \E paid \in [1..MaxViewed -> PageHistories] :
          payments = PagePayments(paid)
    /\ nextId = MaxViewed * Len(PageSeeds) + 1
    /\ listing = NoListing
    /\ views = NoViews
    /\ DateIdle
    /\ AllocIdle
    /\ RecommendIdle
    /\ TotalsIdle
    /\ FormIdle
    /\ CustIdle
    /\ TaskIdle

\* GET / : the public member list
LoadPublicList ==
    /\ \E pick \in LatestPicks(customers, payments) :
          views' = [views EXCEPT !["publicList"] =
                      [loaded |-> {c._id : c \in customers},
                       rows |-> [k \in {c._id : c \in {x \in customers :
                                          ~customerRow(x, Picked(payments, pick[x._id]),
                                                       getTodayDateOnly).isHidden}} |->
                                   publicListRow(CHOOSE c \in customers : c._id = k,
                                                 Picked(payments, pick[k]),
                                                 getTodayDateOnly)]]]
    /\ UNCHANGED <<dateVars, statusVars, allocVars, storeVars, recommendVars,
                   totalsVars, formVars, listVars, custVars, taskVars>>

\* GET /826264 : the admin dashboard
LoadDashboard ==
    /\ \E pick \in LatestPicks(customers, payments) :
          views' = [views EXCEPT !["dashboard"] =
                      [loaded |-> {c._id : c \in customers},
                       rows |-> [k \in {c._id : c \in customers} |->
                                   dashboardRow(CHOOSE c \in customers : c._id = k,
                                                Picked(payments, pick[k]))]]]
    /\ UNCHANGED <<dateVars, statusVars, allocVars, storeVars, recommendVars,
                   totalsVars, formVars, listVars, custVars, taskVars>>

\* GET /customers/:customerId : the public customer page
LoadPublicDetail ==
    /\ \E c \in customers, latest \in SUBSET payments :
          /\ latest \in LatestChoices(payments, c._id)
          /\ LET page == publicDetailLoader(customers, c._id, latest)
             IN  views' = [views EXCEPT !["publicDetail"] =
                             [loaded |-> @.loaded \cup {c._id},
                              rows |-> [k \in (DOMAIN @.rows \ {c._id})
                                                 \cup (IF page.code = 200 THEN {c._id} ELSE {}) |->
                                          IF k = c._id THEN page ELSE @.rows[k]]]]
    /\ UNCHANGED <<dateVars, statusVars, allocVars, storeVars, recommendVars,
                   totalsVars, formVars, listVars, custVars, taskVars>>

\* GET /826264/customers/:customerId : the admin customer page
LoadAdminDetail ==
    /\ \E c \in customers, latest \in SUBSET payments :
          /\ latest \in LatestChoices(payments, c._id)
          /\ LET page == adminDetailLoader(customers, c._id, latest)
             IN  views' = [views EXCEPT !["adminDetail"] =
                             [loaded |-> @.loaded \cup {c._id},
                              rows |-> [k \in (DOMAIN @.rows \ {c._id})
                                                 \cup (IF page.code = 200 THEN {c._id} ELSE {}) |->
                                          IF k = c._id THEN page ELSE @.rows[k]]]]
    /\ UNCHANGED <<dateVars, statusVars, allocVars, storeVars, recommendVars,
                   totalsVars, formVars, listVars, custVars, taskVars>>

PageNext == LoadPublicList \/ LoadDashboard \/ LoadPublicDetail \/ LoadAdminDetail

SpecPages == PageInit /\ [][PageNext]_vars

----------------------------------------------------------------------------
(* Customers created and renamed through the routes *)

MaxCreated == 2
MaxRenamed == 2

\* the name fields posted to the add-customer routes: empty, two names, and a
\* name with a blank before it
NameFields == {<<>>, <<"a">>, <<"b">>, <<" ", "a">>}

\* the name fields posted to the edit route: empty, a name another customer
\* may hold (with a blank before it) and a name no customer starts with
EditNameFields == {<<>>, <<" ", "a">>, <<"c">>}

\* the forms of the add-customer route, of the admin add-customer route (with
\* a first payment on a real or an unreal day) and of the admin edit-customer
\* route
CustomerForms ==
    [route : {"customers.new"}, id : {0}, name : NameFields, currency : {"VND"},
     amountStr : {<<>>}, monthsStr : {<<>>}, paidDate : {<<>>}]
    \cup [route : {"admin.customers.new"}, id : {0}, name : NameFields,
          currency : {"VND"}, amountStr : {<<"5", "0", "0", "0", "0">>},
          monthsStr : {<<"1">>},
          paidDate : {DateString(2026, 1, 31), DateString(2026, 2, 30)}]
    \cup [route : {"admin.customers.edit"}, id : 1..(MaxCreated + 1),
          name : EditNameFields,
          currency : {"VND"}, amountStr : {<<>>}, monthsStr : {<<>>}, paidDate : {<<>>}]

NoCustomerRequest == [route |-> "none", id |-> 0, name |-> <<>>, currency |-> "",
                      amountStr |-> <<>>, monthsStr |-> <<>>, paidDate |-> <<>>]

NoCustomerResponse == [status |-> 0, error |-> "none"]

\* the entry of the log for a call that gave customer id the name
Named(custs, id) ==
    [id |-> id, name |-> (CHOOSE c \in custs : c._id = id).displayName]

CustomerInit ==
    /\ customers = {}
    /\ payments = {}
    /\ nextId = 1
    /\ request = NoCustomerRequest
    /\ response = NoCustomerResponse
    /\ nameLog = <<>>
    /\ listing = NoListing
    /\ DateIdle
    /\ StatusIdle
    /\ AllocIdle
    /\ RecommendIdle
    /\ TotalsIdle
    /\ ViewIdle
    /\ TaskIdle

\* the browser posts a form
SubmitCustomer ==
    /\ request = NoCustomerRequest
    /\ request' \in CustomerForms
    /\ request'.route \in {"customers.new", "admin.customers.new"}
          => Cardinality(customers) < MaxCreated
    /\ request'.route = "admin.customers.edit"
          => Len(nameLog) - Cardinality(customers) < MaxRenamed
    /\ UNCHANGED <<response, customers, listing, nameLog, storeVars, dateVars,
                   statusVars, allocVars, recommendVars, totalsVars, pageVars, taskVars>>

\* POST /customers/new
NewCustomer ==
    /\ request.route = "customers.new"
    /\ LET r == newCustomerAction(customers, nextId, request)
       IN  /\ customers' = r.custs
           /\ response' = [status |-> r.status, error |-> r.error]
           /\ nextId' = IF r.status = 302 THEN nextId + 1 ELSE nextId
           /\ nameLog' = IF r.status = 302 THEN Append(nameLog, Named(r.custs, nextId))
                         ELSE nameLog
    /\ request' = NoCustomerRequest
    /\ UNCHANGED <<payments, listing, dateVars, statusVars, allocVars, recommendVars,
                   totalsVars, pageVars, taskVars>>

\* POST /826264/customers/new
AdminNewCustomer ==
    /\ request.route = "admin.customers.new"
    /\ \E deleteFails \in BOOLEAN :
          LET r == adminNewCustomerAction(customers, payments, nextId, request, 0,
                                          deleteFails)
          IN  /\ customers' = r.custs
              /\ payments' = r.docs
              /\ response' = [status |-> r.status, error |-> r.error]
              /\ nextId' = IF r.custs # customers THEN nextId + 2 ELSE nextId
              /\ nameLog' = IF r.custs # customers
                            THEN Append(nameLog, Named(r.custs, nextId)) ELSE nameLog
    /\ request' = NoCustomerRequest
    /\ UNCHANGED <<listing, dateVars, statusVars, allocVars, recommendVars,
                   totalsVars, pageVars, taskVars>>

\* POST /826264/customers/:customerId/edit
EditCustomer ==
    /\ request.route = "admin.customers.edit"
    /\ LET r == editCustomerAction(customers, request)
       IN  /\ customers' = r.custs
           /\ response' = [status |-> r.status, error |-> r.error]
           /\ nameLog' = IF r.status = 302 THEN Append(nameLog, Named(r.custs, request.id))
                         ELSE nameLog
    /\ request' = NoCustomerRequest
    /\ UNCHANGED <<listing, storeVars, dateVars, statusVars, allocVars, recommendVars,
                   totalsVars, pageVars, taskVars>>

CustomerNext == SubmitCustomer \/ NewCustomer \/ AdminNewCustomer \/ EditCustomer

SpecCustomers == CustomerInit /\ [][CustomerNext]_vars

----------------------------------------------------------------------------
(* Payments added while customers are deleted *)

MaxTasks == 3

\* the customers stored at the start, as createCustomer inserts them
TaskCustomers ==
    {[_id |-> 1, displayName |-> <<"a">>, nameHistory |-> <<>>],
     [_id |-> 2, displayName |-> <<"b">>, nameHistory |-> <<>>]}

\* the payment every add-payment form asks for
TaskPayment(customerId) ==
    [customerId |-> customerId, paidDate |-> DateString(2026, 1, 31),
     currency |-> "VND", amount |-> 50000000, months |-> 1]

DeleteInit ==
    /\ customers = TaskCustomers
    /\ payments \in {{}, createPayment({}, 3, TaskPayment(1), 0)}
    /\ nextId = 4
    /\ tasks = [t \in 1..MaxTasks |-> NoTask]
    /\ request = NoRequest
    /\ response = 0
    /\ listing = NoListing
    /\ nameLog = <<>>
    /\ DateIdle
    /\ StatusIdle
    /\ AllocIdle
    /\ RecommendIdle
    /\ TotalsIdle
    /\ ViewIdle

\* POST /826264/payments/new arrives for a customer
StartAddPayment ==
    /\ \E t \in DOMAIN tasks, c \in 1..Cardinality(TaskCustomers) :
          /\ tasks[t].pc = "idle"
          /\ tasks' = [tasks EXCEPT ![t] = [NoTask EXCEPT !.kind = "addPayment",
                                                           !.pc = "getCustomerById",
                                                           !.customerId = c]]
    /\ UNCHANGED <<customers, listing, formVars, storeVars, dateVars, statusVars,
                   allocVars, recommendVars, totalsVars, pageVars, custVars>>

\* getCustomerById resolves; the form is validated; createPayment is called
\* and awaits its insertOne
AddPaymentCheck ==
    /\ \E t \in DOMAIN tasks :
          /\ tasks[t].kind = "addPayment"
          /\ tasks[t].pc = "getCustomerById"
          /\ tasks' = [tasks EXCEPT ![t].pc =
                          IF customerFound(customers, tasks[t].customerId)
                          THEN "insertOne" ELSE "done"]
    /\ UNCHANGED <<customers, listing, formVars, storeVars, dateVars, statusVars,
                   allocVars, recommendVars, totalsVars, pageVars, custVars>>

\* the insertOne of createPayment
AddPaymentInsert ==
    /\ \E t \in DOMAIN tasks :
          /\ tasks[t].kind = "addPayment"
          /\ tasks[t].pc = "insertOne"
          /\ payments' = createPayment(payments, nextId, TaskPayment(tasks[t].customerId), 0)
          /\ nextId' = nextId + 1
          /\ tasks' = [tasks EXCEPT ![t].pc = "done"]
    /\ UNCHANGED <<customers, listing, formVars, dateVars, statusVars,
                   allocVars, recommendVars, totalsVars, pageVars, custVars>>

\* POST /826264/customers/:customerId with intent=deleteCustomer arrives
StartDeleteCustomer ==
    /\ \E t \in DOMAIN tasks, c \in 1..Cardinality(TaskCustomers) :
          /\ tasks[t].pc = "idle"
          /\ tasks' = [tasks EXCEPT ![t] = [NoTask EXCEPT !.kind = "deleteCustomer",
                                                           !.pc = "deleteMany",
                                                           !.customerId = c]]
    /\ UNCHANGED <<customers, listing, formVars, storeVars, dateVars, statusVars,
                   allocVars, recommendVars, totalsVars, pageVars, custVars>>

\* deleteCustomerWithPayments: the deleteMany on payments
DeletePayments ==
    /\ \E t \in DOMAIN tasks :
          /\ tasks[t].kind = "deleteCustomer"
          /\ tasks[t].pc = "deleteMany"
          /\ payments' = deleteManyPayments(payments, tasks[t].customerId)
          /\ tasks' = [tasks EXCEPT ![t].pc = "deleteOne"]
    /\ UNCHANGED <<customers, nextId, listing, formVars, dateVars, statusVars,
                   allocVars, recommendVars, totalsVars, pageVars, custVars>>

\* deleteCustomerWithPayments: the deleteOne on customers
DeleteCustomerDocument ==
    /\ \E t \in DOMAIN tasks :
          /\ tasks[t].kind = "deleteCustomer"
          /\ tasks[t].pc = "deleteOne"
          /\ customers' = deleteCustomer(customers, tasks[t].customerId)
          /\ tasks' = [tasks EXCEPT ![t].pc = "done"]
    /\ UNCHANGED <<listing, formVars, storeVars, dateVars, statusVars,
                   allocVars, recommendVars, totalsVars, pageVars, custVars>>

DeleteNext ==
    \/ StartAddPayment \/ AddPaymentCheck \/ AddPaymentInsert
    \/ StartDeleteCustomer \/ DeletePayments \/ DeleteCustomerDocument

SpecDelete == DeleteInit /\ [][DeleteNext]_vars

----------------------------------------------------------------------------
(* Customers renamed by requests served at the same time *)

\* the names the edit forms ask for
RenameFields == {<<"b">>, <<"c">>}

RenameInit ==
    /\ customers = TaskCustomers
    /\ payments = {}
    /\ nextId = 3
    /\ tasks = [t \in 1..MaxTasks |-> NoTask]
    /\ nameLog = <<[id |-> 1, name |-> <<"a">>], [id |-> 2, name |-> <<"b">>]>>
    /\ request = NoRequest
    /\ response = 0
    /\ listing = NoListing
    /\ DateIdle
    /\ StatusIdle
    /\ AllocIdle
    /\ RecommendIdle
    /\ TotalsIdle
    /\ ViewIdle

\* POST /826264/customers/:customerId/edit arrives; updateCustomer is called
\* and awaits its findOne
StartUpdateCustomer ==
    /\ \E t \in DOMAIN tasks, c \in 1..Cardinality(TaskCustomers), name \in RenameFields :
          /\ tasks[t].pc = "idle"
          /\ tasks' = [tasks EXCEPT ![t] = [NoTask EXCEPT !.kind = "updateCustomer",
                                                           !.pc = "findOne",
                                                           !.customerId = c,
                                                           !.name = name]]
    /\ UNCHANGED <<customers, listing, formVars, storeVars, dateVars, statusVars,
                   allocVars, recommendVars, totalsVars, pageVars, custVars>>

\* updateCustomer: findOne resolves with the current document; the update is
\* built from it and findOneAndUpdate is awaited
UpdateCustomerRead ==
    /\ \E t \in DOMAIN tasks :
          /\ tasks[t].kind = "updateCustomer"
          /\ tasks[t].pc = "findOne"
          /\ tasks' = [tasks EXCEPT ![t] =
                          IF customerFound(customers, tasks[t].customerId)
                          THEN [@ EXCEPT !.pc = "findOneAndUpdate",
                                         !.current = (CHOOSE c \in customers :
                                                        c._id = tasks[t].customerId).displayName]
                          ELSE [@ EXCEPT !.pc = "done"]]
    /\ UNCHANGED <<customers, listing, formVars, storeVars, dateVars, statusVars,
                   allocVars, recommendVars, totalsVars, pageVars, custVars>>

\* updateCustomer: the findOneAndUpdate
UpdateCustomerWrite ==
    /\ \E t \in DOMAIN tasks :
          /\ tasks[t].kind = "updateCustomer"
          /\ tasks[t].pc = "findOneAndUpdate"
          /\ LET r == findOneAndUpdate(customers, tasks[t].customerId, tasks[t].current,
                                       [displayName |-> tasks[t].name])
             IN  /\ customers' = r.docs
                 /\ nameLog' = IF r.found
                               THEN Append(nameLog, Named(r.docs, tasks[t].customerId))
                               ELSE nameLog
          /\ tasks' = [tasks EXCEPT ![t].pc = "done"]
    /\ UNCHANGED <<listing, formVars, storeVars, dateVars, statusVars,
                   allocVars, recommendVars, totalsVars, pageVars>>

RenameNext == StartUpdateCustomer \/ UpdateCustomerRead \/ UpdateCustomerWrite

SpecRename == RenameInit /\ [][RenameNext]_vars

----------------------------------------------------------------------------
(* The monthly totals of the dashboard over payments around the window *)

\* the day of the request: 2026-01-10, 2025-12-31, 2024-02-29 or 2026-11-06
WindowClocks == {MakeDay(2026, 0, 10), MakeDay(2025, 11, 31), MakeDay(2024, 1, 29),
                 MakeDay(2026, 10, 6)}

\* the first day of the month of the day, and of the same month a year later
MonthStartOf(day) == MakeDay(YearFromTime(day), MonthFromTime(day), 1)
NextYearStartOf(day) == MakeDay(YearFromTime(day) + 1, MonthFromTime(day), 1)

\* the payments that can be stored on the day of the request: paid on the day
\* before the month starts, on its first day, today, on the last day before
\* the same month of next year and on the first day of that month
WindowSeeds(day) ==
    <<[paidDate |-> formatDateOnly(MonthStartOf(day) - 1), currency |-> "VND", amount |-> 50000000],
      [paidDate |-> formatDateOnly(MonthStartOf(day)), currency |-> "USD", amount |-> 2050],
      [paidDate |-> formatDateOnly(day), currency |-> "VND", amount |-> 70000000],
      [paidDate |-> formatDateOnly(NextYearStartOf(day) - 1), currency |-> "USD", amount |-> 4000],
      [paidDate |-> formatDateOnly(NextYearStartOf(day) - 1), currency |-> "VND", amount |-> 1000],
      [paidDate |-> formatDateOnly(NextYearStartOf(day)), currency |-> "USD", amount |-> 10]>>

\* the payments collection holding the seeds chosen
WindowPayments(day, chosen) ==
    UNION {createPayment({}, k, [customerId |-> 1, paidDate |-> WindowSeeds(day)[k].paidDate,
                                 currency |-> WindowSeeds(day)[k].currency,
                                 amount |-> WindowSeeds(day)[k].amount, months |-> 1], 0)
           : k \in chosen}

NoWindow == [list |-> <<>>, monthBuckets |-> <<>>, startWindow |-> <<>>, endWindow |-> <<>>]

WindowInit ==
    /\ now \in WindowClocks
    /\ endDate = NullDate
    /\ today = <<>>
    /\ statusInfo = NoStatus
    /\ \E chosen \in SUBSET (1..6) : payments = WindowPayments(now, chosen)
    /\ nextId = 7
    /\ totalsInput = NoWindow
    /\ totals = NoTotals
    /\ DateIdle
    /\ AllocIdle
    /\ RecommendIdle
    /\ FormIdle
    /\ ListIdle
    /\ ViewIdle
    /\ CustIdle
    /\ TaskIdle

\* GET /826264 : the monthly totals the dashboard loader returns
LoadMonthlyTotals ==
    /\ ~totals.done
    /\ LET startWindow == revenueWindowStart(getTodayDateOnly)
           endWindow == revenueWindowEnd(startWindow)
           paymentsInWindow == toArray(listPaymentsForRevenueWindow(payments, startWindow,
                                                                    endWindow))
           monthBuckets == dashboardMonthBuckets(startWindow)
       IN  /\ totalsInput' = [list |-> paymentsInWindow, monthBuckets |-> monthBuckets,
                              startWindow |-> startWindow, endWindow |-> endWindow]
           /\ totals' = [done |-> TRUE,
                         rows |-> monthlyTotals(
                                      computeMonthlyTotals(asListed(paymentsInWindow),
                                                           monthBuckets),
                                      monthBuckets)]
    /\ UNCHANGED <<dateVars, statusVars, allocVars, storeVars, recommendVars, formVars,
                   listVars, pageVars, custVars, taskVars>>

WindowNext == LoadMonthlyTotals

SpecWindow == WindowInit /\ [][WindowNext]_vars

----------------------------------------------------------------------------
(* Payments entered on the day they are paid *)

MaxPaidToday == 1
MaxTodayTicks == 4

\* where the clock starts: 2026-01-28, 2024-01-28, 2024-02-27, 2025-12-29 and
\* 2026-08-29, so that the month ends, a leap day and a year end are reached
TodayClockStarts ==
    {MakeDay(2026, 0, 28), MakeDay(2024, 0, 28), MakeDay(2024, 1, 27),
     MakeDay(2025, 11, 29), MakeDay(2026, 7, 29)}

\* the months paid for
TodayMonths == (1..MaxMonths) \cup {12}

TodayInit ==
    /\ now \in TodayClockStarts
    /\ endDate = NullDate
    /\ today = <<>>
    /\ statusInfo = NoStatus
    /\ payments = {}
    /\ nextId = 1
    /\ DateIdle
    /\ AllocIdle
    /\ RecommendIdle
    /\ TotalsIdle
    /\ FormIdle
    /\ ListIdle
    /\ ViewIdle
    /\ CustIdle
    /\ TaskIdle

\* midnight passes
TodayTick ==
    /\ \E s \in TodayClockStarts : s <= now /\ now < s + MaxTodayTicks
    /\ now' = now + 1
    /\ UNCHANGED <<endDate, today, statusInfo, dateVars, allocVars, storeVars,
                   recommendVars, totalsVars, formVars, listVars, pageVars, custVars,
                   taskVars>>

\* a payment is created with the form's default paidDate, getTodayDateOnly();
\* its endDate is the one the status pages give to computeStatus from now on
PayToday ==
    /\ nextId <= MaxPaidToday
    /\ \E months \in TodayMonths :
          /\ payments' = createPayment(payments, nextId,
                                       [customerId |-> 1, paidDate |-> getTodayDateOnly,
                                        currency |-> "VND", amount |-> 50000000,
                                        months |-> months], 0)
          /\ endDate' = (CHOOSE d \in payments' : d._id = nextId).endDate
    /\ nextId' = nextId + 1
    /\ today' = <<>>
    /\ statusInfo' = NoStatus
    /\ UNCHANGED <<now, dateVars, allocVars, recommendVars, totalsVars, formVars,
                   listVars, pageVars, custVars, taskVars>>

TodayNext == TodayTick \/ PayToday \/ ComputeStatus

SpecToday == TodayInit /\ [][TodayNext]_vars

----------------------------------------------------------------------------
(* The calendar the claims are stated against *)

GregorianLeap(y) == (y % 4 = 0 /\ y % 100 # 0) \/ y % 400 = 0

DaysInMonth(y, m) ==
    IF m = 2 THEN (IF GregorianLeap(y) THEN 29 ELSE 28)
    ELSE IF m \in {4, 6, 9, 11} THEN 30 ELSE 31

\* the numbers a 4-2-2 digit string names
YearOf(s) == parseInt(SubSeq(s, 1, 4))
MonthOf(s) == parseInt(SubSeq(s, 6, 7))
DayOf(s) == parseInt(SubSeq(s, 9, 10))

\* s has the 4-2-2 digit shape and names a real calendar day
RealDay(s) ==
    /\ s \in PatternStrings
    /\ MonthOf(s) \in 1..12
    /\ DayOf(s) \in 1..DaysInMonth(YearOf(s), MonthOf(s))

\* the numbers a returned date names, read from its end: <year>-MM-DD
RetYear(s) == parseInt(SubSeq(s, 1, Len(s) - 6))
RetMonth(s) == parseInt(SubSeq(s, Len(s) - 4, Len(s) - 3))
RetDay(s) == parseInt(SubSeq(s, Len(s) - 1, Len(s)))

\* C7: for every date the parser accepts and every n in the bound,
\* addMonthsDateOnly returns a date in the calendar month exactly n months from
\* the input's month, with day-of-month min(input day, days in that month).
C7_AddMonthsClamps ==
    (call = "addMonthsDateOnly" /\ isValidDateOnly(dateString)) =>
        LET total == YearOf(dateString) * 12 + (MonthOf(dateString) - 1) + days
            ty == total \div 12
            tm == (total % 12) + 1
            last == DaysInMonth(ty, tm)
            td == IF DayOf(dateString) < last THEN DayOf(dateString) ELSE last
        IN  /\ ret.err = NoError
            /\ RetYear(ret.s) = ty
            /\ RetMonth(ret.s) = tm
            /\ RetDay(ret.s) = td

\* C7 witness: 2024-01-31 plus one month was computed and clamped to 2024-02-29
C7_Witness ==
    /\ call = "addMonthsDateOnly"
    /\ dateString = Str(2024, 4) \o <<"-">> \o Str(1, 2) \o <<"-">> \o Str(31, 2)
    /\ days = 1
    /\ ret.s = Str(2024, 4) \o <<"-">> \o Str(2, 2) \o <<"-">> \o Str(29, 2)

\* C8 (as claimed): for every date the parser accepts and every n,
\* diffDaysDateOnly(addDaysDateOnly(d, n), d) returns n.
C8_DiffOfAddIsN ==
    (call = "diffDaysDateOnly" /\ isValidDateOnly(dateString)) =>
        (ret.err = NoError /\ ret.n = days)

\* C9 (as claimed): for every 4-2-2 digit string naming a real calendar day of
\* the years 0000-9999, parsing succeeds and formatting the parsed date gives
\* the string back.
C9_FormatParseRoundTrip ==
    (call = "formatDateOnly" /\ RealDay(dateString)) =>
        (ret.err = NoError /\ ret.s = dateString)

\* C10: parseDateOnly throws the format error on every string without the
\* 4-2-2 digit shape, throws the distinct invalid-date error on every string of
\* that shape that names no real calendar day, and a date it does return is
\* the day the string names, never another one.
C10_ParseRejects ==
    /\ InvalidFormat # InvalidDate
    /\ call = "parseDateOnly" =>
        /\ dateString \in MalformedStrings => ret.err = InvalidFormat
        /\ (dateString \in PatternStrings /\ ~RealDay(dateString))
              => ret.err = InvalidDate
        /\ ret.err = NoError =>
              /\ RealDay(dateString)
              /\ getFullYear(ret.n) = YearOf(dateString)
              /\ getMonth(ret.n) + 1 = MonthOf(dateString)
              /\ getDate(ret.n) = DayOf(dateString)
    /\ call = "isValidDateOnly" =>
        ((dateString \in MalformedStrings \/ ~RealDay(dateString)) => ret.n = 0)

\* C10 witness: 2026-04-31 (day 31 in April) was parsed and rejected as an
\* invalid date
C10_Witness ==
    /\ call = "parseDateOnly"
    /\ dateString = Str(2026, 4) \o <<"-">> \o Str(4, 2) \o <<"-">> \o Str(31, 2)
    /\ ret.err = InvalidDate

\* the day a 4-2-2 digit string names, as one number that orders the days
Ymd(s) == YearOf(s) * 10000 + MonthOf(s) * 100 + DayOf(s)

Sign(n) == IF n < 0 THEN -1 ELSE IF n > 0 THEN 1 ELSE 0

\* C11 (as claimed): for all dates a and b the parser accepts,
\* compareDateOnly(a, b) returns -1 when a is before b, 0 when they are the
\* same day and 1 when a is after b, and nothing else.
C11_CompareIsSign ==
    (call = "compareDateOnly" /\ isValidDateOnly(dateString) /\ isValidDateOnly(ret.s)) =>
        /\ ret.err = NoError
        /\ ret.n \in {-1, 0, 1}
        /\ ret.n = Sign(Ymd(dateString) - Ymd(ret.s))

\* C11 (amended): for all dates a and b the parser accepts,
\* compareDateOnly(a, b) returns the day difference diffDaysDateOnly(a, b):
\* negative when a is before b, 0 when they are the same day, positive when a
\* is after b.
C11_CompareIsDiffDays ==
    (call = "compareDateOnly" /\ isValidDateOnly(dateString) /\ isValidDateOnly(ret.s)) =>
        /\ ret.err = NoError
        /\ ret.n = diffDaysDateOnly(dateString, ret.s).n
        /\ Sign(ret.n) = Sign(Ymd(dateString) - Ymd(ret.s))

\* C11 witness: 2026-01-15 was compared with the leap day 2024-02-29, 686
\* days before it
C11_Witness ==
    /\ call = "compareDateOnly"
    /\ dateString = DateString(2026, 1, 15)
    /\ ret.s = DateString(2024, 2, 29)
    /\ ret.n = 686

\* C12: for every amount and currency in {VND, USD}, with base price 50000
\* for VND and 2 for USD (amounts and prices in thousandths),
\* calculateRecommendedMonths returns an integer r >= 1 that is 1 for every
\* amount <= 0 and every amount below the base price, and otherwise the floor
\* of amount / base price: r * base <= amount < (r + 1) * base.
C12_RecommendedMonths ==
    recommended.done =>
        LET a == recommendInput.amount
            r == recommended.months
            base == IF recommendInput.currency = "VND" THEN 50000000 ELSE 2000
        IN  /\ r \in Nat
            /\ r >= 1
            /\ a < base => r = 1
            /\ a >= base => (r * base <= a /\ a < (r + 1) * base)

\* C12 witness: 150000 VND gave 3 months
C12_Witness ==
    /\ recommendInput = [amount |-> 150000000, currency |-> "VND"]
    /\ recommended = [done |-> TRUE, months |-> 3]

\* the buckets of a list, each once, in the order of their first occurrence
RECURSIVE FirstOccurrences(_)
FirstOccurrences(seq) ==
    IF Len(seq) = 0 THEN <<>>
    ELSE LET front == FirstOccurrences(SubSeq(seq, 1, Len(seq) - 1))
             last == seq[Len(seq)]
         IN  IF \E i \in 1..Len(front) : front[i] = last THEN front
             ELSE Append(front, last)

\* the payment was paid in the calendar month the YYYY-MM bucket names
PaidIn(p, bucket) ==
    /\ YearOf(p.paidDate) = parseInt(SubSeq(bucket, 1, 4))
    /\ MonthOf(p.paidDate) = parseInt(SubSeq(bucket, 6, 7))

\* the sum of the amounts of the payments of one currency paid in a bucket
RECURSIVE SumPaid(_, _, _)
SumPaid(list, currency, bucket) ==
    IF Len(list) = 0 THEN 0
    ELSE (IF list[1].currency = currency /\ PaidIn(list[1], bucket)
          THEN list[1].amount ELSE 0)
         + SumPaid(Tail(list), currency, bucket)

C14_TotalsOrderIndependent ==
    totals.done =>
        LET list == totalsInput.list
        IN  \A perm \in Permutations(1..Len(list)) :
                computeMonthlyTotals([i \in 1..Len(list) |-> list[perm[i]]],
                                     totalsInput.monthBuckets) = totals.rows

\* C14 witness: totals were computed for three payments of one month that are
\* pairwise different, two of them in USD
C14_Witness ==
    /\ totals.done
    /\ Len(totalsInput.list) = 3
    /\ totalsInput.list[1] # totalsInput.list[2]
    /\ totalsInput.list[2].currency = "USD"
    /\ totalsInput.list[3].currency = "USD"
    /\ totalsInput.list[2].amount # totalsInput.list[3].amount
    /\ \A i \in 1..3 : totalsInput.list[i].paidDate = DateString(2026, 1, 31)
    /\ totalsInput.monthBuckets = <<Bucket(2026, 1)>>
    /\ totals.rows[1].value.USD = 206

\* C4: computeStatus returns none for a null end date and, for an end date the
\* parser accepts, with daysToEnd = diffDays(endDate, today): active when
\* daysToEnd > 3, due when 0 <= daysToEnd <= 3, grace when -7 <= daysToEnd <= -1,
\* expired when daysToEnd < -7; the day count is reported with the status.
C4_StatusClassification ==
    statusInfo.status # "uncomputed" =>
        IF endDate = NullDate
        THEN statusInfo.err = NoError /\ statusInfo.status = "none"
        ELSE isValidDateOnly(endDate) =>
            LET daysToEnd == diffDaysDateOnly(endDate, today).n
            IN  /\ statusInfo.err = NoError
                /\ statusInfo.status =
                        (IF daysToEnd > 3 THEN "active"
                         ELSE IF daysToEnd >= 0 THEN "due"
                         ELSE IF daysToEnd >= -7 THEN "grace"
                         ELSE "expired")
                /\ statusInfo.status \in {"active", "due"}
                        => statusInfo.daysToEnd = daysToEnd
                /\ statusInfo.status \in {"grace", "expired"}
                        => statusInfo.daysPastEnd = -daysToEnd

\* C4 witness: computeStatus returned grace on the last day of the grace window
C4_Witness ==
    /\ statusInfo.status = "grace"
    /\ statusInfo.daysPastEnd = 7
    /\ today = addDaysDateOnly(endDate, 7).s

\* the status computeStatus returns when the clock reads the day `clock`
StatusAt(clock) == computeStatusOn(endDate, formatDateOnly(clock)).status

StatusRank(st) ==
    CASE st = "active" -> 1 [] st = "due" -> 2 [] st = "grace" -> 3
      [] st = "expired" -> 4 [] OTHER -> 0

\* C5: with endDate fixed and the clock advancing one day, the status never
\* moves backwards; it becomes due on the day three days before endDate,
\* grace on the day after endDate, expired on the day after endDate + 7 days,
\* and once expired it stays expired.
C5_StatusOnlyAdvances ==
    [][(now' = now + 1 /\ endDate # NullDate /\ isValidDateOnly(endDate)) =>
          LET before == StatusAt(now)
              after == StatusAt(now')
              newDay == formatDateOnly(now')
          IN  /\ StatusRank(before) >= 1
              /\ StatusRank(after) >= StatusRank(before)
              /\ (before # "due" /\ after = "due")
                    => (before = "active" /\ addDaysDateOnly(newDay, 3).s = endDate)
              /\ (before # "grace" /\ after = "grace")
                    => (before = "due" /\ newDay = addDaysDateOnly(endDate, 1).s)
              /\ (before # "expired" /\ after = "expired")
                    => (before = "grace" /\ newDay = addDaysDateOnly(endDate, 8).s)
              /\ before = "expired" => after = "expired"
      ]_vars

\* C5 witness: twelve days after the clock started four days before endDate
\* (status active), the status is expired, on the day after endDate + 7 days
C5_Witness ==
    /\ \E s \in ClockStarts : now = s + 12
    /\ endDate # NullDate
    /\ isValidDateOnly(endDate)
    /\ getTodayDateOnly = addDaysDateOnly(endDate, 8).s
    /\ StatusAt(now) = "expired"

RECURSIVE SumAmounts(_)
SumAmounts(allocations) ==
    IF Len(allocations) = 0 THEN 0
    ELSE allocations[1].amount + SumAmounts(Tail(allocations))

\* C1: for a payment of N >= 1 months with a positive amount in minimal units
\* (and a paid date the parser accepts), allocatePaymentToMonths returns
\* exactly N allocations whose amounts sum to the payment's amount.
C1_AllocationsSumToAmount ==
    (allocated.done /\ payment.months >= 1 /\ isValidDateOnly(payment.paidDate)) =>
        /\ allocated.err = NoError
        /\ Len(allocated.allocations) = payment.months
        /\ SumAmounts(allocated.allocations) = payment.amount

\* C1 witness: a payment whose amount does not divide by its months was allocated
C1_Witness ==
    /\ allocated.done
    /\ allocated.err = NoError
    /\ payment.months = 3
    /\ payment.amount = 10
    /\ payment.currency = "USD"
    /\ Len(allocated.allocations) = 3

\* C2: with base = floor(amount / N) and remainder = amount - base * N in
\* minimal units, allocation i (i = 0..N-1) is base + 1 when i < remainder and
\* base otherwise.
C2_RemainderToFirstMonths ==
    (allocated.done /\ payment.months >= 1 /\ isValidDateOnly(payment.paidDate)) =>
        LET base == payment.amount \div payment.months
            remainder == payment.amount - base * payment.months
        IN  /\ Len(allocated.allocations) = payment.months
            /\ \A i \in 0..(payment.months - 1) :
                  allocated.allocations[i + 1].amount =
                      (IF i < remainder THEN base + 1 ELSE base)

\* C2 witness: 11 units over 4 months were allocated as 3, 3, 3, 2
C2_Witness ==
    /\ allocated.done
    /\ payment.months = 4
    /\ payment.amount = 11
    /\ Len(allocated.allocations) = 4
    /\ allocated.allocations[3].amount = 3
    /\ allocated.allocations[4].amount = 2

\* the YYYY-MM bucket of the calendar month i months after the month of s
BucketAfter(s, i) ==
    LET total == YearOf(s) * 12 + (MonthOf(s) - 1) + i
    IN  Str(total \div 12, 4) \o <<"-">> \o Str((total % 12) + 1, 2)

\* C3 (as claimed): for every paid date the parser accepts and every N >= 1,
\* allocation i has the YYYY-MM bucket of the calendar month exactly i months
\* after the paid month, allocation 0 the paid date's own bucket.
C3_BucketsContiguous ==
    (allocated.done /\ payment.months >= 1 /\ isValidDateOnly(payment.paidDate)) =>
        /\ Len(allocated.allocations) = payment.months
        /\ allocated.allocations[1].monthBucket = getMonthBucket(payment.paidDate)
        /\ \A i \in 0..(payment.months - 1) :
              allocated.allocations[i + 1].monthBucket = BucketAfter(payment.paidDate, i)

\* C15 (as claimed): allocatePaymentToMonths called with months <= 0 fails
\* with an error reported to the caller and returns no list of allocations.
C15_NonPositiveMonthsFail ==
    (allocated.done /\ payment.months <= 0) => allocated.err # NoError

C16_StoredCurrencyIsVndOrUsd ==
    \A p \in payments : p.currency \in {"VND", "USD"}

\* C17 (as claimed): after any sequence of payment create and edit
\* submissions through the public and admin forms, every stored payment has
\* an amount above zero and a whole number of months, at least 1.
C17_StoredAmountAndMonthsPositive ==
    \A p \in payments : p.amount > 0 /\ p.months \in Nat /\ p.months >= 1

\* C18: after any sequence of createPayment and updatePayment operations,
\* every stored VND amount is a whole number and every stored USD amount a
\* whole number of cents (amounts in thousandths: multiples of 1000 and of 10).
C18_StoredAmountsAtCurrencyPrecision ==
    \A p \in payments :
        /\ p.currency = "VND" => p.amount % 1000 = 0
        /\ p.currency = "USD" => p.amount % 10 = 0

\* C18 witness: 1.005 was stored as 1 VND by createPayment and as 1.00 or 1.01
\* USD by updatePayment
C18_Witness ==
    /\ \E p \in payments : ~p.updatedAt /\ p.currency = "VND" /\ p.amount = 1000
    /\ \E p \in payments : p.updatedAt /\ p.currency = "USD" /\ p.amount \in {1000, 1010}

\* the year, month and day a stored date names are a real calendar day
NamesRealDay(s) ==
    /\ Len(s) >= 8
    /\ RetMonth(s) \in 1..12
    /\ RetDay(s) \in 1..DaysInMonth(RetYear(s), RetMonth(s))

\* C19: when a route handles a create or edit submission whose paidDate has
\* the 4-2-2 digit shape but names no real calendar day, the collection is
\* left as it was (nothing inserted, the edited payment unchanged) and the
\* response is an error; and every stored payment's paidDate and endDate name
\* real calendar days.
C19_UnrealPaidDateFailsOutright ==
    [][/\ (/\ request.route # "none"
            /\ request' = NoRequest
            /\ MatchesDatePattern(request.paidDate)
            /\ ~NamesRealDay(request.paidDate))
           => (payments' = payments /\ nextId' = nextId /\ response' >= 400)
       /\ \A p \in payments' : NamesRealDay(p.paidDate) /\ NamesRealDay(p.endDate)
      ]_vars

\* C19 witness: with a payment stored, a submission whose paidDate made
\* createPayment or updatePayment throw was answered with status 500, and the
\* stored payment is as it was created
C19_Witness ==
    /\ response = 500
    /\ request = NoRequest
    /\ \E p \in payments :
          /\ ~p.updatedAt
          /\ p.paidDate = DateString(2026, 1, 31)
          /\ p.endDate = DateString(2026, 2, 28)

\* two status results that name the same status and the same day count
SameStatus(a, b) ==
    /\ a.status = b.status
    /\ a.status \in {"active", "due"} => a.daysToEnd = b.daysToEnd
    /\ a.status \in {"grace", "expired"} => a.daysPastEnd = b.daysPastEnd

\* C20 (as claimed): within one list request every customer's status and the
\* public hidden test are evaluated against the day captured at the start of
\* the request, also when midnight passes between the per-customer
\* computations.
C20_OneTodayPerRequest ==
    \A k \in DOMAIN listing.rows :
        \E c \in customers :
            LET r == listing.rows[k]
            IN  /\ c._id = r.customer
                /\ SameStatus(r.status, computeStatusOn(r.endDate, listing.today))
                /\ r.isHidden = customerRowOnCapturedDay(
                                    c, LatestPayments(payments, c._id), listing.today).isHidden

----------------------------------------------------------------------------
(* The status pages *)

\* the payments of a customer that no other payment of the customer follows
\* in paidDate
GreatestPaidDate(customerId) ==
    {d \in payments :
        /\ d.customerId = customerId
        /\ \A e \in payments :
              e.customerId = customerId => diffDaysDateOnly(e.paidDate, d.paidDate).n <= 0}

\* C21 (as claimed): on each of the four pages the status shown for a
\* customer is computeStatus of the endDate of the customer's payment with
\* the greatest paidDate, it is none exactly when the customer has no
\* payment, and any two pages show the same payment and the same status.
C21_PagesShowLatestPayment ==
    \A p \in Pages : \A c \in DOMAIN views[p].rows :
        LET row == views[p].rows[c]
        IN  /\ (row.status.status = "none") <=> (\A d \in payments : d.customerId # c)
            /\ row.latestPayment = 0 <=> (\A d \in payments : d.customerId # c)
            /\ row.latestPayment # 0 =>
                  \E d \in GreatestPaidDate(c) :
                      /\ d._id = row.latestPayment
                      /\ SameStatus(row.status, computeStatusOn(d.endDate, formatDateOnly(now)))
            /\ \A q \in Pages :
                  c \in DOMAIN views[q].rows =>
                      /\ views[q].rows[c].latestPayment = row.latestPayment
                      /\ SameStatus(views[q].rows[c].status, row.status)

\* today is after the end date of the payment d
EndedBefore(d, day) == diffDaysDateOnly(day, d.endDate).n > 0

\* the public pages on which the customer was requested and is not shown
HiddenOn(p, c) == c \in views[p].loaded /\ c \notin DOMAIN views[p].rows

\* C22 (as claimed): on the public member list and on the public customer
\* page a customer is hidden whenever isPublicHidden is set or renewalCancelled
\* is set and today is after the latest payment's endDate, and is shown in
\* every other case.
C22_HiddenFromPublicViews ==
    \A p \in {"publicList", "publicDetail"} : \A c \in customers :
        c._id \in views[p].loaded =>
            LET latest == GreatestPaidDate(c._id)
                day == formatDateOnly(now)
            IN  /\ (\/ c.isPublicHidden
                    \/ (/\ c.renewalCancelled
                        /\ latest # {}
                        /\ \A d \in latest : EndedBefore(d, day)))
                      => HiddenOn(p, c._id)
                /\ (/\ ~c.isPublicHidden
                    /\ ~(c.renewalCancelled /\ \E d \in latest : EndedBefore(d, day)))
                      => ~HiddenOn(p, c._id)

----------------------------------------------------------------------------
(* Customers *)

\* a step in which the route named handles the form posted
Handles(route) == request.route = route /\ request' = NoCustomerRequest

\* C23: no two stored customers have the same displayName, and a form that
\* would create a customer with the displayName of a stored customer, or give
\* a stored customer the displayName of another one, is answered with 400 and
\* leaves the customers and the payments as they were.
C23_UniqueDisplayNames ==
    /\ [](\A c, d \in customers : c.displayName = d.displayName => c._id = d._id)
    /\ [][/\ (/\ Handles("customers.new") \/ Handles("admin.customers.new")
              /\ \E c \in customers : c.displayName = trim(request.name))
                => (/\ response' = [status |-> 400, error |-> "duplicate"]
                           \/ (response'.status = 400 /\ Handles("admin.customers.new"))
                    /\ customers' = customers
                    /\ payments' = payments)
          /\ (/\ Handles("admin.customers.edit")
              /\ \E c \in customers : c._id = request.id
              /\ \E c \in customers : c._id # request.id /\ c.displayName = trim(request.name))
                => (/\ response' = [status |-> 400, error |-> "duplicate"]
                    /\ customers' = customers)]_vars

\* a second customer exists, one was renamed, and the last form was refused
\* as a duplicate
C23_Witness ==
    /\ Cardinality(customers) = 2
    /\ Len(nameLog) > 2
    /\ response = [status |-> 400, error |-> "duplicate"]

\* C24 (as claimed): when the admin add-customer action returns, either the
\* new customer and its first payment are both stored or neither is, also
\* when createPayment fails after createCustomer and when the rollback delete
\* fails: no customer is left without its payment.
C24_CustomerAndPaymentTogether ==
    [][Handles("admin.customers.new") =>
          \/ customers' = customers /\ payments' = payments
          \/ \E c \in customers' \ customers :
                /\ customers' = customers \cup {c}
                /\ \E d \in payments' \ payments :
                      /\ payments' = payments \cup {d}
                      /\ d.customerId = c._id]_vars

\* the names the logged calls gave to customer id, oldest first
RECURSIVE NamesOf(_, _)
NamesOf(log, id) ==
    IF Len(log) = 0 THEN <<>>
    ELSE IF log[1].id = id THEN <<log[1].name>> \o NamesOf(Tail(log), id)
    ELSE NamesOf(Tail(log), id)

\* a sequence with every run of equal elements reduced to one
RECURSIVE DistinctConsecutive(_)
DistinctConsecutive(seq) ==
    IF Len(seq) <= 1 THEN seq
    ELSE IF seq[1] = seq[2] THEN DistinctConsecutive(Tail(seq))
    ELSE <<seq[1]>> \o DistinctConsecutive(Tail(seq))

\* C25: after any sequence of updateCustomer calls made one after the other,
\* a customer's nameHistory followed by its displayName is the sequence of the
\* names it has had, oldest first, each run of equal names counted once.
C25_NameHistoryIsNamesHeld ==
    \A c \in customers :
        Append(c.nameHistory, c.displayName) = DistinctConsecutive(NamesOf(nameLog, c._id))

\* a customer renamed once and given the name it had once
C25_Witness ==
    \E c \in customers :
        /\ Len(c.nameHistory) = 1
        /\ Len(NamesOf(nameLog, c._id)) = 3

----------------------------------------------------------------------------
(* Requests served at the same time *)

\* no request is being served
AllCompleted == \A t \in DOMAIN tasks : tasks[t].pc \in {"idle", "done"}

\* C26 (as claimed): however add-payment and delete-customer actions
\* interleave, once all of them have completed every stored payment's
\* customerId is the _id of a stored customer.
C26_NoOrphanPayments ==
    AllCompleted =>
        \A d \in payments : \E c \in customers : c._id = d.customerId

\* the elements of a sequence
Range(seq) == {seq[i] : i \in DOMAIN seq}

\* C27 (as claimed): after updateCustomer calls on one customer that ran at
\* the same time, every name the customer had before its last one is in
\* nameHistory, and nameHistory has no more entries than the name changed.
C27_HistoryKeptUnderConcurrency ==
    AllCompleted =>
        \A c \in customers :
            LET names == DistinctConsecutive(NamesOf(nameLog, c._id))
            IN  /\ \A i \in 1..(Len(names) - 1) : names[i] \in Range(c.nameHistory)
                /\ Len(c.nameHistory) <= Len(names) - 1

----------------------------------------------------------------------------
(* The dashboard's report window *)

\* the sum of one field of the report rows
RECURSIVE SumRows(_, _)
SumRows(rows, field) ==
    IF Len(rows) = 0 THEN 0
    ELSE (IF field = "vnd" THEN rows[1].vnd ELSE rows[1].usd) + SumRows(Tail(rows), field)

\* the sum of the stored amounts (in thousandths) of one currency
RECURSIVE SumStored(_, _)
SumStored(list, currency) ==
    IF Len(list) = 0 THEN 0
    ELSE (IF list[1].currency = currency THEN list[1].amount ELSE 0)
         + SumStored(Tail(list), currency)

\* C28: the dashboard's 12 report buckets are the current month and the next
\* 11 calendar months in ascending order; the query window runs from the first
\* day of the current month to the last day of the 12th bucket's month; the
\* payments fetched are exactly the stored payments paid in one of the 12
\* months; and per currency the bucket totals add up to the total of the
\* fetched payments (VND in whole units, USD in whole cents).
C28_WindowMatchesBuckets ==
    totals.done =>
        LET day == formatDateOnly(now)
            last == BucketAfter(day, monthWindowCount - 1)
            lastYear == parseInt(SubSeq(last, 1, 4))
            lastMonth == parseInt(SubSeq(last, 6, 7))
            fetched == Range(totalsInput.list)
        IN  /\ Len(totalsInput.monthBuckets) = 12
            /\ \A i \in 1..12 : totalsInput.monthBuckets[i] = BucketAfter(day, i - 1)
            /\ totalsInput.startWindow = DateString(YearOf(day), MonthOf(day), 1)
            /\ totalsInput.endWindow
                  = DateString(lastYear, lastMonth, DaysInMonth(lastYear, lastMonth))
            /\ \A d \in payments :
                  d \in fetched <=> \E i \in 1..12 : PaidIn(d, totalsInput.monthBuckets[i])
            /\ Len(totalsInput.list) = Cardinality(fetched)
            /\ [i \in 1..12 |-> totals.rows[i].month] = totalsInput.monthBuckets
            /\ SumRows(totals.rows, "vnd") * 1000 = SumStored(totalsInput.list, "VND")
            /\ SumRows(totals.rows, "usd") * 10 = SumStored(totalsInput.list, "USD")

\* payments paid on the day before the window, on its last day and on the
\* day after it are stored, and the totals were computed
C28_Witness ==
    /\ totals.done
    /\ Cardinality(payments) = 6
    /\ Len(totalsInput.list) = 4

----------------------------------------------------------------------------
(* String order and calendar order *)

\* C29: for all date strings a and b the parser accepts, a < b as strings
\* (b > a by code units) exactly when diffDays(a, b) < 0, a = b as strings
\* exactly when it is 0.
C29_StringOrderIsChronological ==
    (call = "compareDateOnly" /\ isValidDateOnly(dateString) /\ isValidDateOnly(ret.s)) =>
        /\ StringGreater(ret.s, dateString) <=> diffDaysDateOnly(dateString, ret.s).n < 0
        /\ StringGreater(dateString, ret.s) <=> diffDaysDateOnly(dateString, ret.s).n > 0
        /\ dateString = ret.s <=> diffDaysDateOnly(dateString, ret.s).n = 0

\* 0999-12-31 was compared with 0100-01-01 and with no error
C29_Witness ==
    /\ call = "compareDateOnly"
    /\ dateString = DateString(999, 12, 31)
    /\ ret.s = DateString(100, 1, 1)
    /\ ret.err = NoError
    /\ ret.n > 0

----------------------------------------------------------------------------
(* Payments entered on the day they are paid *)

\* C30: a payment created for one month or more with today's date as its
\* paidDate has an endDate strictly after its paidDate, and computeStatus of
\* that endDate on the day of the payment is active, month-end days that
\* clamp included.
C30_PaidTodayIsActive ==
    \A p \in payments :
        /\ diffDaysDateOnly(p.endDate, p.paidDate).n > 0
        /\ StringGreater(p.endDate, p.paidDate)
        /\ (statusInfo.status # "uncomputed" /\ endDate = p.endDate /\ today = p.paidDate)
              => (statusInfo.err = NoError /\ statusInfo.status = "active")

\* paid on 2026-01-31 for one month: the end date is clamped to 2026-02-28
\* and the status computed that day is active with 28 days to the end
C30_Witness ==
    \E p \in payments :
        /\ p.paidDate = DateString(2026, 1, 31)
        /\ p.months = 1
        /\ p.endDate = DateString(2026, 2, 28)
        /\ endDate = p.endDate
        /\ today = p.paidDate
        /\ statusInfo.status = "active"
        /\ statusInfo.daysToEnd = 28

====
